---- MODULE Spec2Model ----
(***************************************************************************)
(* FinSight: the derived-metrics engine and the self-check layer of        *)
(* metrics/calculator.py, as a state machine over one analysis run.        *)
(*                                                                         *)
(* Optional[float] is a sequence of length <= 1: None is <<>>, a number v   *)
(* is <<v>>.  A value produced by a division is an optional rational       *)
(* <<n, d>> in lowest terms with d > 0.  A period record is a function     *)
(* from field names to optional values; an absent period is the empty      *)
(* dict <<>>.                                                              *)
(*                                                                         *)
(* The second part is the statement parsers of parser/xero_parser.py and   *)
(* parser/pdf_parser.py.  A table is what _clean_dataframe hands on: the   *)
(* headers of its value columns and its rows, each a label and one raw     *)
(* cell per value column.  Amounts are held in cents.                      *)
(***************************************************************************)
EXTENDS Integers, Sequences, FiniteSets, TLC

VARIABLES
    given,                  \* financial_data["data"] as the caller passed it
    data,                   \* financial_data["data"], mutated in place; AnalysisResult.raw_data
    benchmarks,             \* industry_benchmarks
    pc,                     \* position inside run_analysis
    metrics,                \* AnalysisResult.metrics
    red_flags,              \* AnalysisResult.red_flags
    self_checks,            \* AnalysisResult.self_checks
    has_self_check_fails,   \* AnalysisResult.has_self_check_fails
    has_self_check_warns,   \* AnalysisResult.has_self_check_warns
    uploads,                \* the uploaded statements, as the parsers read them
    parsed,                 \* what each parse function returned
    merged,                 \* what merge_financial_data returned
    session_state,          \* st.session_state of the application
    page                    \* what the last script run of the application rendered

\* the state of the parsers, which run_analysis never touches
parserVars == <<uploads, parsed, merged>>

\* the state of the application, which neither run_analysis nor a parser touches
appVars == <<session_state, page>>

vars == <<given, data, benchmarks, pc, metrics, red_flags, self_checks,
          has_self_check_fails, has_self_check_warns, uploads, parsed, merged,
          session_state, page>>

(***************************************************************************)
(* Bounds of the model.                                                    *)
(***************************************************************************)
\* An input differs from the base records in at most MaxEdits fields.
MaxEdits == 2

(***************************************************************************)
(* Optional values and Python's truthiness.                                *)
(***************************************************************************)
None == <<>>

Some(v) == <<v>>

IsNone(x) == Len(x) = 0

\* dict.get(key): None for a missing key
Get(rec, key) == IF key \in DOMAIN rec THEN rec[key] ELSE None

\* `x or 0` on an Optional number
OrZero(x) == IF IsNone(x) THEN 0 ELSE x[1]

\* `x or 1` on an Optional number: None and 0 both give 1
OrOne(x) == IF IsNone(x) \/ x[1] = 0 THEN 1 ELSE x[1]

\* bool(x) of an Optional number: None and 0 are falsy
Truthy(x) == ~IsNone(x) /\ x[1] # 0

\* `a or b` on Optional numbers
OrElse(a, b) == IF Truthy(a) THEN a ELSE b

\* bool(d) of a dict: the empty dict is falsy
NonEmpty(rec) == DOMAIN rec # {}

Abs(n) == IF n < 0 THEN -n ELSE n

(***************************************************************************)
(* Rationals: the values float division produces, kept exact.              *)
(***************************************************************************)
RECURSIVE GCD(_, _)
GCD(a, b) == IF b = 0 THEN a ELSE GCD(b, a % b)

\* n / d for d # 0, in lowest terms with a positive denominator
Rat(n, d) ==
    LET s == IF d < 0 THEN -1 ELSE 1
        g == GCD(Abs(n), Abs(d))
    IN  <<(s * n) \div g, (s * d) \div g>>

RatInt(n) == <<n, 1>>

RatLe(a, b) == a[1] * b[2] <= b[1] * a[2]

RatLt(a, b) == a[1] * b[2] < b[1] * a[2]

\* a + b over the least common denominator
RatAdd(a, b) ==
    LET g == GCD(a[2], b[2])
    IN  Rat(a[1] * (b[2] \div g) + b[1] * (a[2] \div g), (a[2] \div g) * b[2])

RatSub(a, b) == RatAdd(a, <<-b[1], b[2]>>)

RatTimes(a, k) == Rat(a[1] * k, a[2])

\* Optional rational as a truth value: None and 0.0 are falsy
RatTruthy(x) == ~IsNone(x) /\ x[1] # 0

\* `x or 0` on an Optional rational
RatOrZero(x) == IF IsNone(x) THEN RatInt(0) ELSE x

(***************************************************************************)
(* Helper functions of the calculator.                                     *)
(***************************************************************************)
\* _safe_div on Optional integers: None when an operand is None or the
\* denominator is 0
SafeDiv(num, den) ==
    IF IsNone(num) \/ IsNone(den) THEN None
    ELSE IF den[1] = 0 THEN None
    ELSE Rat(num[1], den[1])

\* _pct: _safe_div times 100
Pct(num, den) ==
    LET r == SafeDiv(num, den)
    IN  IF IsNone(r) THEN None ELSE RatTimes(r, 100)

\* the three threshold shapes of _traffic_light
GreenAbove(value, green, amber) ==
    IF IsNone(value) THEN "grey"
    ELSE IF RatLe(green, value) THEN "green"
    ELSE IF RatLe(amber, value) THEN "amber"
    ELSE "red"

GreenBelow(value, green, amber) ==
    IF IsNone(value) THEN "grey"
    ELSE IF RatLe(value, green) THEN "green"
    ELSE IF RatLe(value, amber) THEN "amber"
    ELSE "red"

(***************************************************************************)
(* EBIT / EBITDA from components.                                          *)
(***************************************************************************)
\* _compute_ebit_from_components: <<ebit, ebitda>>, both None without net_profit
ComputeEbitFromComponents(period_data) ==
    LET net_profit == Get(period_data, "net_profit")
        interest   == OrZero(Get(period_data, "interest_expense"))
        tax        == OrZero(Get(period_data, "tax_expense"))
        dep        == OrZero(Get(period_data, "depreciation"))
    IN  IF IsNone(net_profit) THEN <<None, None>>
        ELSE <<Some(net_profit[1] + interest + tax),
               Some(net_profit[1] + interest + tax + dep)>>

\* the loop body of run_analysis over [cur, prior, prior2]: an empty record is
\* skipped, otherwise the computed values are stored on the record itself
WithComputedEbit(period_data) ==
    LET e == ComputeEbitFromComponents(period_data)
    IN  IF ~NonEmpty(period_data) THEN period_data
        ELSE IF IsNone(e[1]) THEN period_data
        ELSE [f \in DOMAIN period_data \cup {"_ebit_computed", "_ebitda_computed"} |->
                IF f = "_ebit_computed" THEN e[1]
                ELSE IF f = "_ebitda_computed" THEN e[2]
                ELSE period_data[f]]

(***************************************************************************)
(* Financial integrity self-checks.                                        *)
(***************************************************************************)
SelfCheckResult(name, st, evaluated) ==
    [check_name |-> name, status |-> st, evaluated |-> evaluated]

\* PLTolerance with the band at 1% instead of 0.1%
Mutant_PLTolerance(net_profit) ==
    LET t == Rat(Abs(net_profit), 100)
    IN  IF RatLe(t, RatInt(1)) THEN RatInt(1) ELSE t

\* tolerance = max(1.0, abs(net_profit) * 0.001)
PLTolerance(net_profit) ==
    LET t == Rat(Abs(net_profit), 1000)
    IN  IF RatLe(t, RatInt(1)) THEN RatInt(1) ELSE t

\* CheckPLBalance that evaluates as soon as revenue and net_profit are present,
\* taking a missing cogs or operating_expenses as 0
Mutant_CheckPLBalance(cur) ==
    LET revenue    == Get(cur, "revenue")
        net_profit == Get(cur, "net_profit")
    IN  IF ~IsNone(revenue) /\ ~IsNone(net_profit)
        THEN LET calc_np == revenue[1] - OrZero(Get(cur, "cogs"))
                            - OrZero(Get(cur, "operating_expenses"))
                            - OrZero(Get(cur, "interest_expense"))
                            - OrZero(Get(cur, "tax_expense"))
                 diff    == Abs(calc_np - net_profit[1])
                 status  == IF diff <= 1 THEN "pass"
                            ELSE IF RatLe(RatInt(diff), PLTolerance(net_profit[1])) THEN "warn"
                            ELSE "fail"
             IN  <<SelfCheckResult("P&L Balance", status, TRUE)>>
        ELSE <<SelfCheckResult("P&L Balance", "warn", FALSE)>>

\* CHECK 1: P&L Balance
CheckPLBalance(cur) ==
    LET revenue    == Get(cur, "revenue")
        cogs       == Get(cur, "cogs")
        opex       == Get(cur, "operating_expenses")
        net_profit == Get(cur, "net_profit")
        interest   == OrZero(Get(cur, "interest_expense"))
        tax        == OrZero(Get(cur, "tax_expense"))
    IN  IF ~IsNone(revenue) /\ ~IsNone(cogs) /\ ~IsNone(opex) /\ ~IsNone(net_profit)
        THEN LET calc_np == revenue[1] - OrZero(cogs) - OrZero(opex) - interest - tax
                 diff    == Abs(calc_np - net_profit[1])
                 status  == IF diff <= 1 THEN "pass"
                            ELSE IF RatLe(RatInt(diff), PLTolerance(net_profit[1])) THEN "warn"
                            ELSE "fail"
             IN  <<SelfCheckResult("P&L Balance", status, TRUE)>>
        ELSE <<SelfCheckResult("P&L Balance", "warn", FALSE)>>

\* CHECK 2: Gross Profit Consistency
CheckGrossProfit(cur) ==
    LET revenue      == Get(cur, "revenue")
        cogs         == Get(cur, "cogs")
        gross_profit == Get(cur, "gross_profit")
    IN  IF ~IsNone(revenue) /\ ~IsNone(cogs) /\ ~IsNone(gross_profit)
        THEN LET calc_gp == revenue[1] - cogs[1]
                 diff    == Abs(gross_profit[1] - calc_gp)
             IN  <<SelfCheckResult("Gross Profit Check",
                                   IF diff <= 1 THEN "pass" ELSE "fail", TRUE)>>
        ELSE IF ~IsNone(revenue) /\ ~IsNone(cogs)
        THEN <<>>
        ELSE <<SelfCheckResult("Gross Profit Check", "warn", FALSE)>>

\* CheckBalanceSheet with the warn band at 5% of total assets instead of 0.5%
Mutant_CheckBalanceSheet(cur) ==
    LET total_assets      == Get(cur, "total_assets")
        total_liabilities == Get(cur, "total_liabilities")
        equity            == Get(cur, "equity")
    IN  IF ~IsNone(total_assets) /\ ~IsNone(total_liabilities) /\ ~IsNone(equity)
        THEN LET diff   == Abs(total_assets[1] - (total_liabilities[1] + equity[1]))
                 status == IF diff <= 1 THEN "pass"
                           ELSE IF RatLe(RatInt(diff), Rat(total_assets[1] * 5, 100))
                                THEN "warn"
                           ELSE "fail"
             IN  <<SelfCheckResult("Balance Sheet Equation", status, TRUE)>>
        ELSE <<SelfCheckResult("Balance Sheet Equation", "warn", FALSE)>>

\* CHECK 3: Balance Sheet Equation
CheckBalanceSheet(cur) ==
    LET total_assets      == Get(cur, "total_assets")
        total_liabilities == Get(cur, "total_liabilities")
        equity            == Get(cur, "equity")
    IN  IF ~IsNone(total_assets) /\ ~IsNone(total_liabilities) /\ ~IsNone(equity)
        THEN LET liab_plus_eq == total_liabilities[1] + equity[1]
                 diff         == Abs(total_assets[1] - liab_plus_eq)
                 status       == IF diff <= 1 THEN "pass"
                                 ELSE IF RatLe(RatInt(diff), Rat(total_assets[1] * 5, 1000))
                                      THEN "warn"
                                 ELSE "fail"
             IN  <<SelfCheckResult("Balance Sheet Equation", status, TRUE)>>
        ELSE <<SelfCheckResult("Balance Sheet Equation", "warn", FALSE)>>

\* CheckEquityMovement that reports an unexplained movement as fail
Mutant_CheckEquityMovement(cur, prior) ==
    LET prior_equity == Get(prior, "equity")
        cur_equity   == Get(cur, "equity")
        cur_np       == Get(cur, "net_profit")
    IN  IF ~NonEmpty(prior) THEN <<>>
        ELSE IF ~IsNone(prior_equity) /\ ~IsNone(cur_equity) /\ ~IsNone(cur_np)
        THEN <<SelfCheckResult("Equity Movement",
                               IF Abs(cur_equity[1] - (prior_equity[1] + cur_np[1])) > 1
                               THEN "fail" ELSE "pass", TRUE)>>
        ELSE <<SelfCheckResult("Equity Movement", "warn", FALSE)>>

\* CHECK 4: Equity Movement, only with a prior record
CheckEquityMovement(cur, prior) ==
    LET prior_equity == Get(prior, "equity")
        cur_equity   == Get(cur, "equity")
        cur_np       == Get(cur, "net_profit")
    IN  IF ~NonEmpty(prior) THEN <<>>
        ELSE IF ~IsNone(prior_equity) /\ ~IsNone(cur_equity) /\ ~IsNone(cur_np)
        THEN LET expected_eq == prior_equity[1] + cur_np[1]
                 diff        == Abs(cur_equity[1] - expected_eq)
             IN  <<SelfCheckResult("Equity Movement",
                                   IF diff > 1 THEN "warn" ELSE "pass", TRUE)>>
        ELSE <<SelfCheckResult("Equity Movement", "warn", FALSE)>>

\* CHECK 5: Current Assets subtotal
CheckCurrentAssets(cur) ==
    LET current_assets == Get(cur, "current_assets")
        cash == OrZero(Get(cur, "cash"))
        ar   == OrZero(Get(cur, "accounts_receivable"))
        inv  == OrZero(Get(cur, "inventory"))
    IN  IF ~IsNone(current_assets) /\ (cash # 0 \/ ar # 0 \/ inv # 0)
        THEN LET component_sum == cash + ar + inv
             IN  <<SelfCheckResult("Current Assets Subtotal",
                                   IF component_sum > current_assets[1] + 1
                                   THEN "warn" ELSE "pass", TRUE)>>
        ELSE <<>>

\* CHECK 6: Revenue Reasonableness, only with a prior record
CheckRevenueReasonableness(cur, prior) ==
    LET prior_revenue == Get(prior, "revenue")
        cur_revenue   == Get(cur, "revenue")
    IN  IF ~NonEmpty(prior) THEN <<>>
        ELSE IF Truthy(prior_revenue) /\ Truthy(cur_revenue) /\ prior_revenue[1] > 0
        THEN LET pct_change == RatTimes(Rat(cur_revenue[1] - prior_revenue[1],
                                            prior_revenue[1]), 100)
                 abs_change == <<Abs(pct_change[1]), pct_change[2]>>
             IN  <<SelfCheckResult("Revenue Reasonableness",
                                   IF RatLt(RatInt(50), abs_change)
                                   THEN "warn" ELSE "pass", TRUE)>>
        ELSE <<>>

\* run_self_checks: the six checks in order
RunSelfChecksOn(d) ==
    LET cur   == Get(d, "current")
        prior == Get(d, "prior")
    IN  CheckPLBalance(cur) \o CheckGrossProfit(cur) \o CheckBalanceSheet(cur)
        \o CheckEquityMovement(cur, prior) \o CheckCurrentAssets(cur)
        \o CheckRevenueReasonableness(cur, prior)

\* any(c.status == st for c in self_checks)
AnyStatus(checks, st) == \E i \in 1..Len(checks) : checks[i].status = st

\* HasFails that counts every check that did not pass
Mutant_HasFails(checks) == \E i \in 1..Len(checks) : checks[i].status # "pass"

\* has_self_check_fails
HasFails(checks) == AnyStatus(checks, "fail")

\* has_self_check_warns
HasWarns(checks) == AnyStatus(checks, "warn")

(***************************************************************************)
(* Metric calculators.                                                     *)
(***************************************************************************)
MetricResult(cur, pri, p2, st, nt) ==
    [current |-> cur, prior |-> pri, prior2 |-> p2, status |-> st, notes |-> nt]

\* `not inv_source or inv_source == "not_found"`
InventoryNotIdentified(cur) ==
    LET inv_source == Get(cur, "_inventory_source")
    IN  IsNone(inv_source) \/ inv_source[1] = "" \/ inv_source[1] = "not_found"

\* Current Ratio of one period
CurrentRatio(rec) == SafeDiv(Get(rec, "current_assets"), Get(rec, "current_liabilities"))

\* Quick Ratio of one period
QuickRatio(rec) ==
    SafeDiv(Some(OrZero(Get(rec, "current_assets")) - OrZero(Get(rec, "inventory"))),
            Get(rec, "current_liabilities"))

\* Days Cash on Hand of one period
DaysCashOnHand(rec) ==
    LET opex == Get(rec, "operating_expenses")
        cash == Get(rec, "cash")
    IN  IF Truthy(opex) /\ ~IsNone(cash) THEN Rat(cash[1] * 365, opex[1]) ELSE None

calculate_liquidity(cur, prior, prior2) ==
    LET cr_cur == CurrentRatio(cur)
        qr_cur == QuickRatio(cur)
        dcoh_cur == DaysCashOnHand(cur)
        inv_note == IF InventoryNotIdentified(cur)
                    THEN "Inventory not identified on Balance Sheet"
                    ELSE ""
    IN  [current_ratio |->
            MetricResult(cr_cur, CurrentRatio(prior), CurrentRatio(prior2),
                         GreenAbove(cr_cur, RatInt(2), RatInt(1)), ""),
         quick_ratio |->
            MetricResult(qr_cur, QuickRatio(prior), QuickRatio(prior2),
                         GreenAbove(qr_cur, RatInt(1), <<1, 2>>), inv_note),
         days_cash_on_hand |->
            MetricResult(dcoh_cur, DaysCashOnHand(prior), None,
                         GreenAbove(dcoh_cur, RatInt(30), RatInt(15)), "")]

\* the EBIT the margins use: the record's _ebit_computed
MarginEbit(rec) == Get(rec, "_ebit_computed")

\* the EBITDA the margins use: the record's _ebitda_computed
MarginEbitda(rec) == Get(rec, "_ebitda_computed")

\* notes of ebit_margin: the assumption notes of _ebit_components, of which the
\* first stands for the joined text (empty exactly when there is none)
EbitAssumptionNotes(cur) ==
    IF IsNone(Get(cur, "_ebit_computed")) THEN ""
    ELSE IF OrZero(Get(cur, "interest_expense")) = 0 THEN "Interest expense not identified"
    ELSE IF OrZero(Get(cur, "tax_expense")) = 0 THEN "Tax expense not identified"
    ELSE IF OrZero(Get(cur, "depreciation")) = 0 THEN "D&A not identified"
    ELSE ""

\* notes of ebitda_margin
DepNote(cur) ==
    IF ~IsNone(Get(cur, "_ebit_computed")) /\ OrZero(Get(cur, "depreciation")) = 0
    THEN "D&A not identified" ELSE ""

calculate_profitability(cur, prior, prior2) ==
    LET gpm(r)      == Pct(Get(r, "gross_profit"), Get(r, "revenue"))
        npm(r)      == Pct(Get(r, "net_profit"), Get(r, "revenue"))
        ebit_m(r)   == Pct(MarginEbit(r), Get(r, "revenue"))
        ebitda_m(r) == Pct(MarginEbitda(r), Get(r, "revenue"))
        roa(r)      == Pct(Get(r, "net_profit"), Get(r, "total_assets"))
        roe(r)      == Pct(Get(r, "net_profit"), Get(r, "equity"))
    IN  [gross_profit_margin |->
            MetricResult(gpm(cur), gpm(prior), gpm(prior2), "grey", ""),
         net_profit_margin |->
            MetricResult(npm(cur), npm(prior), npm(prior2), "grey", ""),
         ebit_margin |->
            MetricResult(ebit_m(cur), ebit_m(prior), ebit_m(prior2),
                         GreenAbove(ebit_m(cur), RatInt(10), RatInt(3)),
                         EbitAssumptionNotes(cur)),
         ebitda_margin |->
            MetricResult(ebitda_m(cur), ebitda_m(prior), ebitda_m(prior2),
                         GreenAbove(ebitda_m(cur), RatInt(15), RatInt(5)), DepNote(cur)),
         return_on_assets |->
            MetricResult(roa(cur), roa(prior), roa(prior2),
                         GreenAbove(roa(cur), RatInt(10), RatInt(3)), ""),
         return_on_equity |->
            MetricResult(roe(cur), roe(prior), roe(prior2),
                         GreenAbove(roe(cur), RatInt(15), RatInt(5)), "")]

\* Debtor Days of one period
DebtorDays(rec) ==
    SafeDiv(Some(OrZero(Get(rec, "accounts_receivable")) * 365), Get(rec, "revenue"))

\* the denominator of Creditor Days and Inventory Days: `cogs or revenue`
CogsOrRevenue(rec) == OrElse(Get(rec, "cogs"), Get(rec, "revenue"))

\* Creditor Days of one period
CreditorDays(rec) ==
    SafeDiv(Some(OrZero(Get(rec, "accounts_payable")) * 365), CogsOrRevenue(rec))

\* Inventory Days of one period, given the current record's inventory note
InventoryDays(rec, noted) ==
    IF noted THEN None
    ELSE SafeDiv(Some(OrZero(Get(rec, "inventory")) * 365), CogsOrRevenue(rec))

\* Cash Conversion Cycle from the three day counts
CashConversionCycle(dd, id, cd) ==
    IF ~IsNone(dd) /\ ~IsNone(cd) THEN RatSub(RatAdd(dd, RatOrZero(id)), cd) ELSE None

calculate_efficiency(cur, prior, prior2) ==
    LET noted  == InventoryNotIdentified(cur)
        dd_cur == DebtorDays(cur)
        cd_cur == CreditorDays(cur)
        id_cur == InventoryDays(cur, noted)
        ccc_cur == CashConversionCycle(dd_cur, id_cur, cd_cur)
        ccc_pri == CashConversionCycle(DebtorDays(prior), InventoryDays(prior, noted),
                                       CreditorDays(prior))
    IN  [debtor_days |->
            MetricResult(dd_cur, DebtorDays(prior), DebtorDays(prior2),
                         GreenBelow(dd_cur, RatInt(30), RatInt(60)), ""),
         creditor_days |->
            MetricResult(cd_cur, CreditorDays(prior), CreditorDays(prior2), "grey",
                         IF ~IsNone(cd_cur) /\ ~IsNone(dd_cur) /\ RatLt(cd_cur, dd_cur)
                         THEN "Creditor days below debtor days" ELSE ""),
         inventory_days |->
            MetricResult(id_cur, InventoryDays(prior, noted), InventoryDays(prior2, noted),
                         IF RatTruthy(id_cur)
                         THEN GreenBelow(id_cur, RatInt(45), RatInt(90)) ELSE "grey",
                         IF noted THEN "Inventory not identified on Balance Sheet" ELSE ""),
         cash_conversion_cycle |->
            MetricResult(ccc_cur, ccc_pri, None,
                         GreenBelow(ccc_cur, RatInt(30), RatInt(60)), "")]

\* the EBIT Interest Coverage uses: `_ebit_computed or ebit`
CoverageEbit(rec) == OrElse(Get(rec, "_ebit_computed"), Get(rec, "ebit"))

\* Interest Coverage of one period
InterestCoverage(rec) == SafeDiv(CoverageEbit(rec), Get(rec, "interest_expense"))

\* Net Debt of the current period: total_debt, else total_liabilities, less cash
NetDebtCurrent(cur) ==
    IF ~IsNone(Get(cur, "total_debt"))
    THEN RatInt(OrZero(Get(cur, "total_debt")) - OrZero(Get(cur, "cash")))
    ELSE IF ~IsNone(Get(cur, "total_liabilities"))
    THEN RatInt(OrZero(Get(cur, "total_liabilities")) - OrZero(Get(cur, "cash")))
    ELSE None

\* Net Debt of the prior period: total_debt less cash only
NetDebtPrior(prior) ==
    IF ~IsNone(Get(prior, "total_debt"))
    THEN RatInt(OrZero(Get(prior, "total_debt")) - OrZero(Get(prior, "cash")))
    ELSE None

calculate_leverage(cur, prior, prior2) ==
    LET dte(r) == SafeDiv(Get(r, "total_liabilities"), Get(r, "equity"))
        ic_cur == InterestCoverage(cur)
    IN  [debt_to_equity |->
            MetricResult(dte(cur), dte(prior), dte(prior2),
                         GreenBelow(dte(cur), RatInt(1), RatInt(2)), ""),
         interest_coverage |->
            MetricResult(ic_cur, InterestCoverage(prior), InterestCoverage(prior2),
                         GreenAbove(ic_cur, RatInt(3), <<3, 2>>), ""),
         net_debt |->
            MetricResult(NetDebtCurrent(cur), NetDebtPrior(prior), None, "grey", "")]

\* the keys of a period record that hold a list, which is never None
ListKeys == {"_dep_components", "_interest_components", "_tax_components", "_bs_line_items"}

\* `any(v is not None for v in prior.values())`
AnyValue(rec) == \E f \in DOMAIN rec : f \in ListKeys \/ ~IsNone(rec[f])

\* year-on-year growth of one field: _pct((cur or 0) - (prior or 0), prior)
Growth(cur, prior, field) ==
    Pct(Some(OrZero(Get(cur, field)) - OrZero(Get(prior, field))), Get(prior, field))

\* expense_flag: set when both growths are known and expenses outgrow revenue by 2 points
ExpenseFlag(exp_growth, rev_growth) ==
    ~IsNone(exp_growth) /\ ~IsNone(rev_growth)
    /\ RatLt(RatAdd(rev_growth, RatInt(2)), exp_growth)

\* status of expense_growth
ExpenseGrowthStatus(exp_growth, rev_growth) ==
    IF ExpenseFlag(exp_growth, rev_growth) THEN "red"
    ELSE IF RatLe(RatOrZero(exp_growth), RatOrZero(rev_growth)) THEN "green"
    ELSE "amber"

\* status of revenue_growth, gross_profit_growth and net_profit_growth
GrowthStatus(g) == GreenAbove(g, RatInt(10), RatInt(0))

calculate_growth(cur, prior, prior2) ==
    LET rev_growth == Growth(cur, prior, "revenue")
        gp_growth  == Growth(cur, prior, "gross_profit")
        exp_growth == Growth(cur, prior, "operating_expenses")
        np_growth  == Growth(cur, prior, "net_profit")
    IN  IF ~NonEmpty(prior) \/ ~AnyValue(prior) THEN <<>>
        ELSE [revenue_growth |->
                MetricResult(rev_growth, None, None, GrowthStatus(rev_growth), ""),
              gross_profit_growth |->
                MetricResult(gp_growth, None, None, GrowthStatus(gp_growth), ""),
              expense_growth |->
                MetricResult(exp_growth, None, None,
                             ExpenseGrowthStatus(exp_growth, rev_growth),
                             IF ExpenseFlag(exp_growth, rev_growth)
                             THEN "Expenses growing faster than revenue." ELSE ""),
              net_profit_growth |->
                MetricResult(np_growth, None, None, GrowthStatus(np_growth), "")]

(***************************************************************************)
(* ATO benchmarks.                                                         *)
(***************************************************************************)
\* benchmark_status of benchmarks/ato_fetcher.py
benchmark_status(actual_pct, low, high) ==
    LET range_width == IF high - low > 1 THEN high - low ELSE 1
        outside == IF RatLt(actual_pct, RatInt(low))
                   THEN RatSub(RatInt(low), actual_pct)
                   ELSE RatSub(actual_pct, RatInt(high))
    IN  IF IsNone(actual_pct) THEN "grey"
        ELSE IF RatLe(RatInt(low), actual_pct) /\ RatLe(actual_pct, RatInt(high)) THEN "green"
        ELSE IF RatLe(RatTimes(outside, 100), RatInt(20 * range_width)) THEN "amber"
        ELSE "red"

\* one margin of apply_ato_benchmarks: re-statused only when it has a value and
\* the industry has a range for it
Benchmarked(m, bms, key) ==
    IF ~IsNone(m.current) /\ key \in DOMAIN bms
    THEN [m EXCEPT !.status = benchmark_status(m.current, bms[key].low, bms[key].high)]
    ELSE m

apply_ato_benchmarks(ms, bms) ==
    IF ~NonEmpty(bms) THEN ms
    ELSE [ms EXCEPT !.gross_profit_margin = Benchmarked(@, bms, "gross_profit_margin"),
                    !.net_profit_margin   = Benchmarked(@, bms, "net_profit_margin")]

(***************************************************************************)
(* Red flags.                                                              *)
(***************************************************************************)
\* growth of a balance against growth of a flow, both above 5 points apart
Diverges(cur_bal, pri_bal, cur_flow, pri_flow) ==
    LET flow_growth == Rat(cur_flow - pri_flow, pri_flow)
        bal_growth  == Rat(cur_bal - pri_bal, pri_bal)
    IN  RatLt(RatAdd(flow_growth, <<1, 20>>), bal_growth) /\ RatLt(<<1, 20>>, bal_growth)

\* Current Ratio below 1.0
FlagCurrentRatio(ms) ==
    IF ~IsNone(ms.current_ratio.current) /\ RatLt(ms.current_ratio.current, RatInt(1))
    THEN <<"current_ratio">> ELSE <<>>

\* Interest Coverage below 1.5
FlagInterestCoverage(ms) ==
    IF ~IsNone(ms.interest_coverage.current)
       /\ RatLt(ms.interest_coverage.current, <<3, 2>>)
    THEN <<"interest_coverage">> ELSE <<>>

\* negative Net Profit
FlagNetLoss(cur) ==
    IF ~IsNone(Get(cur, "net_profit")) /\ Get(cur, "net_profit")[1] < 0
    THEN <<"net_loss">> ELSE <<>>

\* Accounts Receivable growing faster than revenue
FlagReceivables(cur, prior) ==
    LET rev_cur == OrZero(Get(cur, "revenue"))
        rev_pri == OrOne(Get(prior, "revenue"))
        ar_cur  == OrZero(Get(cur, "accounts_receivable"))
        ar_pri  == OrZero(Get(prior, "accounts_receivable"))
    IN  IF NonEmpty(prior) /\ rev_pri > 0 /\ ar_pri > 0
           /\ Diverges(ar_cur, ar_pri, rev_cur, rev_pri)
        THEN <<"receivables">> ELSE <<>>

\* Inventory growing faster than COGS
FlagInventory(cur, prior) ==
    LET cogs_cur == OrZero(Get(cur, "cogs"))
        cogs_pri == OrOne(Get(prior, "cogs"))
        inv_cur  == OrZero(Get(cur, "inventory"))
        inv_pri  == OrZero(Get(prior, "inventory"))
    IN  IF NonEmpty(prior) /\ cogs_pri > 0 /\ inv_pri > 0
           /\ Diverges(inv_cur, inv_pri, cogs_cur, cogs_pri)
        THEN <<"inventory">> ELSE <<>>

\* revenue up while operating cash flow is down
FlagCashFlow(cur, prior) ==
    LET rev_cur == OrZero(Get(cur, "revenue"))
        rev_pri == OrZero(Get(prior, "revenue"))
        ocf_cur == Get(cur, "operating_cash_flow")
        ocf_pri == Get(prior, "operating_cash_flow")
    IN  IF NonEmpty(prior) /\ ~IsNone(ocf_cur) /\ ~IsNone(ocf_pri)
           /\ rev_cur > rev_pri /\ ocf_cur[1] < ocf_pri[1]
        THEN <<"cash_flow">> ELSE <<>>

\* the condition of the expense-growth rule
ExpenseRuleFires(ms) ==
    "expense_growth" \in DOMAIN ms /\ "revenue_growth" \in DOMAIN ms
    /\ RatLt(RatAdd(RatOrZero(ms["revenue_growth"].current), RatInt(2)),
             RatOrZero(ms["expense_growth"].current))

\* the rule's message formats both growths with :.1f, which raises TypeError on None
ExpenseRuleRaises(ms) ==
    ExpenseRuleFires(ms)
    /\ (IsNone(ms["expense_growth"].current) \/ IsNone(ms["revenue_growth"].current))

detect_red_flags(cur, prior, prior2, ms) ==
    FlagCurrentRatio(ms) \o FlagInterestCoverage(ms) \o FlagNetLoss(cur)
    \o FlagReceivables(cur, prior) \o FlagInventory(cur, prior) \o FlagCashFlow(cur, prior)
    \o (IF ExpenseRuleFires(ms) THEN <<"expense_growth">> ELSE <<>>)

(***************************************************************************)
(* run_analysis, step by step.                                             *)
(***************************************************************************)
Cur   == Get(data, "current")
Prior == Get(data, "prior")
Prior2 == Get(data, "prior2")

\* all_metrics: the five groups, then the benchmarks when there are any
AllMetrics(cur, prior, prior2, bms) ==
    LET all_metrics == calculate_growth(cur, prior, prior2)
                       @@ calculate_leverage(cur, prior, prior2)
                       @@ calculate_efficiency(cur, prior, prior2)
                       @@ calculate_profitability(cur, prior, prior2)
                       @@ calculate_liquidity(cur, prior, prior2)
    IN  apply_ato_benchmarks(all_metrics, bms)

\* Pre-compute the component-based EBIT/EBITDA on every non-empty period record
PrecomputeEbit ==
    /\ pc = "start"
    /\ data' = [p \in DOMAIN data |-> WithComputedEbit(data[p])]
    /\ pc' = "metrics"
    /\ UNCHANGED <<given, benchmarks, metrics, red_flags, self_checks,
                   has_self_check_fails, has_self_check_warns>>
    /\ UNCHANGED parserVars
    /\ UNCHANGED appVars

\* Calculate all metric groups and apply the benchmarks
CalculateMetrics ==
    /\ pc = "metrics"
    /\ metrics' = AllMetrics(Cur, Prior, Prior2, benchmarks)
    /\ pc' = "flags"
    /\ UNCHANGED <<given, data, benchmarks, red_flags, self_checks,
                   has_self_check_fails, has_self_check_warns>>
    /\ UNCHANGED parserVars
    /\ UNCHANGED appVars

\* detect_red_flags; an exception raised there ends run_analysis without a result
DetectRedFlags ==
    /\ pc = "flags"
    /\ IF ExpenseRuleRaises(metrics)
       THEN pc' = "error" /\ UNCHANGED red_flags
       ELSE pc' = "checks" /\ red_flags' = detect_red_flags(Cur, Prior, Prior2, metrics)
    /\ UNCHANGED <<given, data, benchmarks, metrics, self_checks,
                   has_self_check_fails, has_self_check_warns>>
    /\ UNCHANGED parserVars
    /\ UNCHANGED appVars

\* run_self_checks and the two derived flags
RunSelfChecks ==
    /\ pc = "checks"
    /\ self_checks' = RunSelfChecksOn(data)
    /\ has_self_check_fails' = HasFails(self_checks')
    /\ has_self_check_warns' = HasWarns(self_checks')
    /\ pc' = "done"
    /\ UNCHANGED <<given, data, benchmarks, metrics, red_flags>>
    /\ UNCHANGED parserVars
    /\ UNCHANGED appVars

Next == PrecomputeEbit \/ CalculateMetrics \/ DetectRedFlags \/ RunSelfChecks

(***************************************************************************)
(* Inputs.  Every input is the base statement below with at most MaxEdits  *)
(* of its fields replaced; each specification names the fields it varies   *)
(* and the values it puts there.                                           *)
(***************************************************************************)
BalanceSheetSource == "balance_sheet/current_assets"

BaseCurrent ==
    [revenue |-> Some(4000), cogs |-> Some(1000), gross_profit |-> Some(3000),
     operating_expenses |-> Some(600), depreciation |-> Some(50),
     interest_expense |-> Some(100), tax_expense |-> Some(300),
     net_profit |-> Some(2000), ebit |-> Some(2400), ebitda |-> Some(2450),
     cash |-> Some(100), accounts_receivable |-> Some(200), inventory |-> Some(100),
     _inventory_source |-> Some(BalanceSheetSource),
     current_assets |-> Some(500), current_liabilities |-> Some(250),
     total_assets |-> Some(1000), accounts_payable |-> Some(150),
     total_liabilities |-> Some(600), equity |-> Some(400),
     total_debt |-> Some(300), operating_cash_flow |-> Some(500)]

BasePrior ==
    [revenue |-> Some(3000), cogs |-> Some(800), gross_profit |-> Some(2200),
     operating_expenses |-> Some(500), depreciation |-> Some(50),
     interest_expense |-> Some(100), tax_expense |-> Some(200),
     net_profit |-> Some(1400), ebit |-> Some(1700), ebitda |-> Some(1750),
     cash |-> Some(80), accounts_receivable |-> Some(150), inventory |-> Some(80),
     _inventory_source |-> Some(BalanceSheetSource),
     current_assets |-> Some(400), current_liabilities |-> Some(200),
     total_assets |-> Some(900), accounts_payable |-> Some(100),
     total_liabilities |-> Some(500), equity |-> Some(400),
     total_debt |-> Some(300), operating_cash_flow |-> Some(400)]

\* a record whose every field is None (a confirmation form left blank)
BlankRecord == [f \in DOMAIN BaseCurrent |-> None]

NoRecord == <<>>

BaseData == [current |-> BaseCurrent, prior |-> BasePrior, prior2 |-> NoRecord]

NoBenchmarks == <<>>

IndustryBenchmarks ==
    [gross_profit_margin |-> [low |-> 30, high |-> 45],
     net_profit_margin   |-> [low |-> 5, high |-> 15]]

\* one edit: slot <<period, field>> takes value v; slot <<period, "*">> replaces
\* the whole period record
ApplyEdit(d, slot, v) ==
    IF slot[2] = "*" THEN [d EXCEPT ![slot[1]] = v]
    ELSE IF slot[2] \in DOMAIN d[slot[1]] THEN [d EXCEPT ![slot[1]][slot[2]] = v]
    ELSE d

\* `given` is d with at most k further edits
RECURSIVE Edited(_, _, _)
Edited(d, alts, k) ==
    \/ given = d
    \/ /\ k > 0
       /\ \E slot \in DOMAIN alts : \E v \in alts[slot] :
              Edited(ApplyEdit(d, slot, v), alts, k - 1)

InitWith(alts, benches) ==
    /\ Edited(BaseData, alts, MaxEdits)
    /\ data = given
    /\ benchmarks \in benches
    /\ pc = "start"
    /\ metrics = <<>>
    /\ red_flags = <<>>
    /\ self_checks = <<>>
    /\ has_self_check_fails = FALSE
    /\ has_self_check_warns = FALSE
    /\ uploads = <<>>
    /\ parsed = <<>>
    /\ merged = <<>>
    /\ session_state = <<>>
    /\ page = <<>>

\* values around v
Near(v) == {Some(v + 1), Some(v + 2), Some(v + 6)}

\* Self-check inputs
ChecksAlts ==
    LET c(f) == <<"current", f>>
        p(f) == <<"prior", f>>
    IN  (c("revenue") :> {None, Some(0), Some(8000)})
     @@ (c("cogs") :> {None, Some(0), Some(1006)})
     @@ (c("gross_profit") :> {None, Some(3001), Some(3002)})
     @@ (c("operating_expenses") :> {None, Some(0)})
     @@ (c("interest_expense") :> {None, Some(0)})
     @@ (c("tax_expense") :> {None, Some(0)})
     @@ (c("net_profit") :> {None} \cup Near(2000))
     @@ (c("total_assets") :> {None, Some(0)})
     @@ (c("total_liabilities") :> {None} \cup Near(600))
     @@ (c("equity") :> {None, Some(3400)})
     @@ (c("current_assets") :> {None, Some(0), Some(399)})
     @@ (c("cash") :> {None, Some(0), Some(300)})
     @@ (c("accounts_receivable") :> {None, Some(0)})
     @@ (c("inventory") :> {None, Some(0)})
     @@ (p("equity") :> {None, Some(1400)})
     @@ (p("revenue") :> {None, Some(0), Some(-3000)})
     @@ (p("*") :> {NoRecord, BlankRecord})

Init == InitWith(ChecksAlts, {NoBenchmarks})

Spec == Init /\ [][Next]_vars

\* Balance Sheet Equation inputs
BalanceAlts ==
    LET c(f) == <<"current", f>>
    IN  (c("total_assets") :> {None, Some(0), Some(-1000), Some(999), Some(1400), Some(2000)})
     @@ (c("total_liabilities") :>
            {None, Some(0), Some(594), Some(595), Some(599), Some(601), Some(605),
             Some(606), Some(607), Some(1000), Some(1607)})
     @@ (c("equity") :>
            {None, Some(0), Some(-600), Some(393), Some(394), Some(395), Some(398),
             Some(399), Some(401), Some(402), Some(405), Some(406), Some(800)})

InitBalance == InitWith(BalanceAlts, {NoBenchmarks})

SpecBalance == InitBalance /\ [][Next]_vars

\* P&L Balance inputs
ProfitLossAlts ==
    LET c(f) == <<"current", f>>
    IN  (c("revenue") :> {None, Some(0), Some(3998), Some(3999), Some(4001), Some(4002),
                          Some(4003), Some(6000), Some(6005), Some(6006)})
     @@ (c("cogs") :> {None, Some(0), Some(998), Some(1001), Some(1002), Some(1003)})
     @@ (c("operating_expenses") :> {None, Some(0), Some(599), Some(602), Some(603)})
     @@ (c("interest_expense") :> {None, Some(0), Some(98), Some(101), Some(102)})
     @@ (c("tax_expense") :> {None, Some(0), Some(298), Some(301), Some(303)})
     @@ (c("net_profit") :> {None, Some(0), Some(-2000), Some(-1999), Some(1997),
                             Some(1998), Some(1999), Some(2001), Some(2002), Some(2003),
                             Some(3000), Some(4000), Some(4004)})

InitProfitLoss == InitWith(ProfitLossAlts, {NoBenchmarks})

SpecProfitLoss == InitProfitLoss /\ [][Next]_vars

\* EBIT / EBITDA inputs
EbitAlts ==
    LET c(f) == <<"current", f>>
        p(f) == <<"prior", f>>
    IN  (c("net_profit") :> {None, Some(-400), Some(0), Some(100)})
     @@ (c("tax_expense") :> {None, Some(0), Some(30)})
     @@ (c("interest_expense") :> {None, Some(0), Some(20)})
     @@ (c("depreciation") :> {None, Some(0)})
     @@ (c("ebit") :> {None, Some(0), Some(999999)})
     @@ (c("ebitda") :> {None, Some(999999)})
     @@ (c("revenue") :> {None, Some(0)})
     @@ (p("net_profit") :> {None, Some(-300)})
     @@ (p("ebit") :> {None, Some(999999)})
     @@ (p("interest_expense") :> {None, Some(0)})
     @@ (p("*") :> {NoRecord})
     @@ (<<"prior2", "*">> :>
            {BasePrior, BlankRecord, [BasePrior EXCEPT !.net_profit = None],
             [BasePrior EXCEPT !.ebit = Some(999999)]})

InitEbit == InitWith(EbitAlts, {NoBenchmarks})

SpecEbit == InitEbit /\ [][Next]_vars

\* Growth inputs, with and without industry benchmarks
GrowthAlts ==
    LET c(f) == <<"current", f>>
        p(f) == <<"prior", f>>
    IN  (c("revenue") :> {None, Some(0), Some(2000)})
     @@ (c("gross_profit") :> {None, Some(0)})
     @@ (c("operating_expenses") :> {None, Some(0), Some(1200)})
     @@ (c("net_profit") :> {None, Some(-100)})
     @@ (p("revenue") :> {None, Some(0)})
     @@ (p("gross_profit") :> {None, Some(0)})
     @@ (p("operating_expenses") :> {None, Some(0)})
     @@ (p("net_profit") :> {None, Some(0)})
     @@ (p("*") :> {NoRecord, BlankRecord})

InitGrowth == InitWith(GrowthAlts, {NoBenchmarks, IndustryBenchmarks})

SpecGrowth == InitGrowth /\ [][Next]_vars

\* Liquidity inputs
LiquidityAlts ==
    LET c(f) == <<"current", f>>
        p(f) == <<"prior", f>>
    IN  (c("current_assets") :> {None, Some(0), Some(755)})
     @@ (c("current_liabilities") :> {None, Some(0), Some(380)})
     @@ (c("inventory") :> {None, Some(0), Some(220)})
     @@ (c("_inventory_source") :> {None, Some(""), Some("not_found")})
     @@ (p("current_assets") :> {None, Some(0)})
     @@ (p("current_liabilities") :> {None, Some(0)})
     @@ (p("inventory") :> {None})
     @@ (p("*") :> {NoRecord})

InitLiquidity == InitWith(LiquidityAlts, {NoBenchmarks})

SpecLiquidity == InitLiquidity /\ [][Next]_vars

\* Efficiency inputs: inventory days on and around the 45 and 90 day thresholds
EfficiencyAlts ==
    LET c(f) == <<"current", f>>
        p(f) == <<"prior", f>>
    IN  (c("inventory") :> {None, Some(0), Some(45), Some(46), Some(90), Some(91)})
     @@ (c("cogs") :> {None, Some(0), Some(365)})
     @@ (c("revenue") :> {None, Some(0), Some(730)})
     @@ (c("_inventory_source") :> {None, Some(""), Some("not_found")})
     @@ (c("accounts_receivable") :> {None, Some(0)})
     @@ (c("accounts_payable") :> {None, Some(0)})
     @@ (p("inventory") :> {None, Some(0)})
     @@ (p("cogs") :> {None, Some(0)})
     @@ (p("*") :> {NoRecord})

InitEfficiency == InitWith(EfficiencyAlts, {NoBenchmarks})

SpecEfficiency == InitEfficiency /\ [][Next]_vars

\* Red-flag inputs: the fields the prior-dependent rules and the growth rule compare
RedFlagAlts ==
    LET c(f) == <<"current", f>>
        p(f) == <<"prior", f>>
    IN  (c("revenue") :> {None, Some(0), Some(2000)})
     @@ (c("accounts_receivable") :> {None, Some(100)})
     @@ (c("cogs") :> {None, Some(0)})
     @@ (c("inventory") :> {None, Some(50)})
     @@ (c("operating_cash_flow") :> {None, Some(300)})
     @@ (c("operating_expenses") :> {None, Some(0), Some(400)})
     @@ (p("revenue") :> {None, Some(0)})
     @@ (p("accounts_receivable") :> {None, Some(0)})
     @@ (p("cogs") :> {None, Some(0)})
     @@ (p("inventory") :> {None, Some(0)})
     @@ (p("operating_cash_flow") :> {None, Some(600)})
     @@ (p("operating_expenses") :> {None, Some(0)})
     @@ (p("*") :> {NoRecord, BlankRecord})

InitRedFlags == InitWith(RedFlagAlts, {NoBenchmarks})

SpecRedFlags == InitRedFlags /\ [][Next]_vars


(***************************************************************************)
(* Statement parsers: the keyword lists of parser/xero_parser.py.          *)
(***************************************************************************)
SUBTOTAL_KEYWORDS ==
    {"total", "subtotal", "gross profit", "net profit", "net loss", "net income",
     "net revenue", "net sales"}

REVENUE_KEYWORDS ==
    {"revenue", "income", "sales", "turnover", "fees", "service income",
     "trading income", "gross receipts", "total income", "total revenue",
     "grant income", "other income"}

REVENUE_TOTAL_KEYWORDS ==
    {"total revenue", "total income", "total sales", "total trading income",
     "total fees", "total service income", "total turnover", "gross income",
     "total receipts", "total gross receipts"}

COGS_KEYWORDS ==
    {"cost of sales", "cost of goods", "cogs", "direct costs", "direct expenses",
     "purchases", "cost of revenue", "materials", "subcontractors", "direct labour",
     "direct wages", "opening stock", "closing stock", "freight in", "freight-in"}

COGS_TOTAL_KEYWORDS ==
    {"total cost of sales", "total cost of goods", "total cogs", "total direct costs",
     "total direct expenses", "total purchases", "total cost of revenue",
     "total materials"}

GROSS_PROFIT_KEYWORDS ==
    {"gross profit", "gross margin"}

OPERATING_EXPENSES_KEYWORDS ==
    {"operating expenses", "expenses", "overheads", "administrative",
     "general expenses", "selling expenses", "total expenses", "total overheads"}

EBIT_KEYWORDS ==
    {"ebit", "operating profit", "profit from operations", "operating income"}

EBITDA_KEYWORDS ==
    {"ebitda"}

NET_PROFIT_KEYWORDS ==
    {"net profit", "net income", "profit after tax", "profit before tax", "net loss",
     "net earnings", "profit for the year", "surplus"}

DEPRECIATION_KEYWORDS ==
    {"depreciation", "amortisation", "amortization", "dep &",
     "depreciation and amortisation", "depreciation and amortization", "d&a",
     "right of use", "rou asset depreciation", "right-of-use",
     "amortisation of intangibles", "amortization of intangibles"}

INTEREST_KEYWORDS ==
    {"interest expense", "finance charge", "bank charge", "loan interest",
     "interest on loan", "borrowing cost", "finance costs", "interest paid",
     "bank interest", "interest on overdraft", "hire purchase interest"}

TAX_KEYWORDS ==
    {"income tax", "tax expense", "taxation", "company tax", "income tax expense",
     "provision for tax", "corporate tax", "tax payable", "fringe benefits tax", "fbt"}

CURRENT_ASSETS_KEYWORDS ==
    {"current assets", "total current assets"}

CASH_KEYWORDS ==
    {"cash", "bank", "cash and cash equivalents", "cash at bank"}

RECEIVABLES_KEYWORDS ==
    {"accounts receivable", "debtors", "trade receivables", "receivables",
     "trade debtors", "sundry debtors"}

INVENTORY_KEYWORDS ==
    {"inventory", "stock on hand", "closing stock", "finished goods", "raw materials",
     "work in progress", "wip", "trading stock", "stock"}

OTHER_CURRENT_ASSETS_KEYWORDS ==
    {"other current assets", "prepayments", "accrued income"}

NON_CURRENT_ASSETS_KEYWORDS ==
    {"non-current assets", "fixed assets", "total non-current assets",
     "plant and equipment", "property plant"}

TOTAL_ASSETS_KEYWORDS ==
    {"total assets"}

CURRENT_LIABILITIES_KEYWORDS ==
    {"current liabilities", "total current liabilities"}

PAYABLES_KEYWORDS ==
    {"accounts payable", "creditors", "trade payables", "trade creditors",
     "sundry creditors"}

OTHER_CURRENT_LIAB_KEYWORDS ==
    {"other current liabilities", "accrued liabilities", "gst payable"}

NON_CURRENT_LIABILITIES_KEYWORDS ==
    {"non-current liabilities", "long-term liabilities",
     "total non-current liabilities"}

TOTAL_LIABILITIES_KEYWORDS ==
    {"total liabilities"}

EQUITY_KEYWORDS ==
    {"equity", "total equity", "shareholders equity", "net assets", "owners equity"}

DEBT_KEYWORDS ==
    {"loans", "borrowings", "bank loan", "term loan", "line of credit", "overdraft"}

OPERATING_CF_KEYWORDS ==
    {"cash from operations", "operating cash flow", "net cash from operating",
     "cash generated from operations", "net cash provided by operating"}

INVESTING_CF_KEYWORDS ==
    {"cash from investing", "investing activities", "net cash from investing"}

FINANCING_CF_KEYWORDS ==
    {"cash from financing", "financing activities", "net cash from financing"}

\* _RELATIVE_PRIORITY, in the order the dict is walked
RELATIVE_PRIORITY ==
    <<<<"current year", 100>>, <<"current", 100>>, <<"this year", 100>>,
     <<"prior year", 50>>, <<"prior", 50>>, <<"previous year", 50>>,
     <<"comparative", 50>>, <<"last year", 50>>>>

(***************************************************************************)
(* The keyword tables of parser/pdf_parser.py.  A dict that the code walks *)
(* in order is a sequence of <<key, keywords>>.                            *)
(***************************************************************************)
PDF_PL_SECTION_HEADERS ==
    <<
     <<"revenue", {"revenue", "income", "total income", "total revenue", "sales", "turnover", "trading income", "gross receipts"}>>,
     <<"cogs", {"cost of sales", "cost of goods sold", "direct costs", "purchases", "cost of revenue"}>>,
     <<"gross_profit", {"gross profit"}>>,
     <<"operating_expenses", {"operating expenses", "expenses", "overheads", "administrative", "general and administrative"}>>,
     <<"below_ebit", {"finance costs", "interest", "income tax", "taxation"}>>>>

PDF_INVENTORY_KEYWORDS ==
    {"inventory", "stock on hand", "closing stock", "finished goods", "raw materials",
     "work in progress", "wip", "trading stock", "stock"}

PDF_SUBTOTAL_KEYWORDS ==
    {"total", "subtotal", "gross profit", "net profit", "net loss", "net income"}

SECTION_KEYWORDS ==
    <<
     <<"revenue", {"total revenue", "total income", "total sales", "revenue", "sales", "turnover", "total trading income"}>>,
     <<"cogs", {"total cost of sales", "total cost of goods", "total direct costs", "cost of sales", "cost of goods", "direct costs"}>>,
     <<"gross_profit", {"gross profit"}>>,
     <<"operating_expenses", {"total expenses", "total operating expenses", "operating expenses", "total overheads"}>>,
     <<"ebit", {"ebit", "operating profit", "profit from operations"}>>,
     <<"depreciation", {"depreciation", "amortisation", "amortization", "dep &", "depreciation and amortisation", "d&a", "right of use", "rou asset depreciation"}>>,
     <<"ebitda", {"ebitda"}>>,
     <<"interest_expense", {"interest expense", "finance costs", "interest paid", "finance charge", "loan interest", "bank charge", "borrowing cost"}>>,
     <<"tax_expense", {"income tax", "tax expense", "taxation", "company tax", "provision for tax"}>>,
     <<"net_profit", {"net profit", "net income", "profit after tax", "profit before tax", "net loss"}>>,
     <<"cash", {"cash at bank", "cash and cash equivalents", "bank balances", "cash"}>>,
     <<"accounts_receivable", {"accounts receivable", "trade receivables", "debtors"}>>,
     <<"current_assets", {"total current assets"}>>,
     <<"non_current_assets", {"total non-current assets", "total fixed assets"}>>,
     <<"total_assets", {"total assets"}>>,
     <<"accounts_payable", {"accounts payable", "trade payables", "creditors"}>>,
     <<"current_liabilities", {"total current liabilities"}>>,
     <<"non_current_liabilities", {"total non-current liabilities"}>>,
     <<"total_liabilities", {"total liabilities"}>>,
     <<"equity", {"total equity", "net assets", "shareholders equity"}>>,
     <<"total_debt", {"total loans", "total borrowings", "bank loans"}>>,
     <<"operating_cash_flow", {"net cash from operating", "cash from operations", "operating cash flow"}>>,
     <<"investing_cash_flow", {"net cash from investing", "investing activities"}>>,
     <<"financing_cash_flow", {"net cash from financing", "financing activities"}>>>>

(***************************************************************************)
(* The texts the tables below are built from.  For each row label and      *)
(* column header: the keywords and literals of the parser found in its     *)
(* lower-cased text, and for a header what each year pattern captures.     *)
(***************************************************************************)
\* text -> the parsers' keywords and literals that are substrings of text.lower()
SubstringsOf ==
       ("Revenue" :> {"revenue"})
    @@ ("Consulting Income" :> {"income"})
    @@ ("Sales" :> {"sales"})
    @@ ("Total Revenue" :> {"revenue", "total", "total revenue"})
    @@ ("Total Income" :> {"income", "total", "total income"})
    @@ ("Gross Income" :> {"gross income", "income"})
    @@ ("Cost of Sales" :> {"cost of sales", "sales"})
    @@ ("Purchases" :> {"purchases"})
    @@ ("Closing Stock" :> {"closing stock", "stock"})
    @@ ("Total Cost of Sales" :> {"cost of sales", "sales", "total", "total cost of sales"})
    @@ ("Gross Profit" :> {"gross profit"})
    @@ ("Wages" :> {})
    @@ ("Total Operating Expenses" :> {"expenses", "operating expenses", "total", "total operating expenses"})
    @@ ("Interest Expense" :> {"interest", "interest expense"})
    @@ ("INTEREST EXPENSE" :> {"interest", "interest expense"})
    @@ ("Bank Charges" :> {"bank", "bank charge"})
    @@ ("Finance Costs" :> {"finance costs"})
    @@ ("Total Finance Costs" :> {"finance costs", "total"})
    @@ ("Depreciation" :> {"depreciation"})
    @@ ("Income Tax Expense" :> {"income", "income tax", "income tax expense", "tax expense"})
    @@ ("EBIT" :> {"ebit"})
    @@ ("Net Profit" :> {"net profit"})
    @@ ("Current Assets" :> {"current", "current assets"})
    @@ ("Cash at Bank" :> {"bank", "cash", "cash at bank"})
    @@ ("Accounts Receivable" :> {"accounts receivable"})
    @@ ("Inventory" :> {"inventory"})
    @@ ("Stock on Hand" :> {"stock", "stock on hand"})
    @@ ("Total Current Assets" :> {"current", "current assets", "total", "total current assets"})
    @@ ("Non-Current Assets" :> {"current", "current assets", "non", "non-current", "non-current assets"})
    @@ ("Plant and Equipment" :> {"plant and equipment"})
    @@ ("Total Non-Current Assets" :> {"current", "current assets", "non", "non-current", "non-current assets", "total", "total non-current assets"})
    @@ ("Total Assets" :> {"total", "total assets"})
    @@ ("Current Liabilities" :> {"current", "current liabilities"})
    @@ ("Accounts Payable" :> {"accounts payable"})
    @@ ("Total Current Liabilities" :> {"current", "current liabilities", "total", "total current liabilities"})
    @@ ("Non-Current Liabilities" :> {"current", "current liabilities", "non", "non-current", "non-current liabilities"})
    @@ ("Bank Loan" :> {"bank", "bank loan"})
    @@ ("Total Liabilities" :> {"total", "total liabilities"})
    @@ ("Equity" :> {"equity"})
    @@ ("Retained Earnings" :> {})
    @@ ("Total Equity" :> {"equity", "total", "total equity"})
    @@ ("Net Cash from Operating Activities" :> {"cash", "net cash from operating"})
    @@ ("Net Cash from Investing Activities" :> {"cash", "cash from investing", "investing activities", "net cash from investing"})
    @@ ("Net Cash from Financing Activities" :> {"cash", "cash from financing", "financing activities", "net cash from financing"})
    @@ ("Balance Sheet" :> {"balance sheet"})
    @@ ("Profit and Loss" :> {"profit and loss"})
    @@ ("FY2024" :> {})
    @@ ("FY2023" :> {})
    @@ ("FY23" :> {})
    @@ ("2023/24" :> {})
    @@ ("Year ended 30 June 2022" :> {})
    @@ ("Jul 2022 - Jun 2023" :> {})
    @@ ("FY0000" :> {})
    @@ ("Notes" :> {})
    @@ ("Current Year" :> {"current", "current year"})
    @@ ("Prior Year" :> {"prior", "prior year"})
    @@ ("Budget" :> {})

\* str.lower() of a row label
LowerOf ==
       ("Revenue" :> "revenue")
    @@ ("Consulting Income" :> "consulting income")
    @@ ("Sales" :> "sales")
    @@ ("Total Revenue" :> "total revenue")
    @@ ("Total Income" :> "total income")
    @@ ("Gross Income" :> "gross income")
    @@ ("Cost of Sales" :> "cost of sales")
    @@ ("Purchases" :> "purchases")
    @@ ("Closing Stock" :> "closing stock")
    @@ ("Total Cost of Sales" :> "total cost of sales")
    @@ ("Gross Profit" :> "gross profit")
    @@ ("Wages" :> "wages")
    @@ ("Total Operating Expenses" :> "total operating expenses")
    @@ ("Interest Expense" :> "interest expense")
    @@ ("INTEREST EXPENSE" :> "interest expense")
    @@ ("Bank Charges" :> "bank charges")
    @@ ("Finance Costs" :> "finance costs")
    @@ ("Total Finance Costs" :> "total finance costs")
    @@ ("Depreciation" :> "depreciation")
    @@ ("Income Tax Expense" :> "income tax expense")
    @@ ("EBIT" :> "ebit")
    @@ ("Net Profit" :> "net profit")
    @@ ("Current Assets" :> "current assets")
    @@ ("Cash at Bank" :> "cash at bank")
    @@ ("Accounts Receivable" :> "accounts receivable")
    @@ ("Inventory" :> "inventory")
    @@ ("Stock on Hand" :> "stock on hand")
    @@ ("Total Current Assets" :> "total current assets")
    @@ ("Non-Current Assets" :> "non-current assets")
    @@ ("Plant and Equipment" :> "plant and equipment")
    @@ ("Total Non-Current Assets" :> "total non-current assets")
    @@ ("Total Assets" :> "total assets")
    @@ ("Current Liabilities" :> "current liabilities")
    @@ ("Accounts Payable" :> "accounts payable")
    @@ ("Total Current Liabilities" :> "total current liabilities")
    @@ ("Non-Current Liabilities" :> "non-current liabilities")
    @@ ("Bank Loan" :> "bank loan")
    @@ ("Total Liabilities" :> "total liabilities")
    @@ ("Equity" :> "equity")
    @@ ("Retained Earnings" :> "retained earnings")
    @@ ("Total Equity" :> "total equity")
    @@ ("Net Cash from Operating Activities" :> "net cash from operating activities")
    @@ ("Net Cash from Investing Activities" :> "net cash from investing activities")
    @@ ("Net Cash from Financing Activities" :> "net cash from financing activities")
    @@ ("Balance Sheet" :> "balance sheet")
    @@ ("Profit and Loss" :> "profit and loss")

\* header -> the group(s) each pattern of _extract_year_from_col captures, as
\* integers; `slash` is <<first year, suffix, digits of the suffix>>
YearPatternsOf ==
       ("FY2024" :>
          [fy4 |-> Some(2024), fy2 |-> None, year_ended |-> None,
           slash |-> None, month_range |-> None, bare |-> None])
    @@ ("FY2023" :>
          [fy4 |-> Some(2023), fy2 |-> None, year_ended |-> None,
           slash |-> None, month_range |-> None, bare |-> None])
    @@ ("FY23" :>
          [fy4 |-> None, fy2 |-> Some(23), year_ended |-> None,
           slash |-> None, month_range |-> None, bare |-> None])
    @@ ("2023/24" :>
          [fy4 |-> None, fy2 |-> None, year_ended |-> None,
           slash |-> <<2023, 24, 2>>, month_range |-> None, bare |-> Some(2023)])
    @@ ("Year ended 30 June 2022" :>
          [fy4 |-> None, fy2 |-> None, year_ended |-> Some(2022),
           slash |-> None, month_range |-> None, bare |-> Some(2022)])
    @@ ("Jul 2022 - Jun 2023" :>
          [fy4 |-> None, fy2 |-> None, year_ended |-> None,
           slash |-> None, month_range |-> Some(2023), bare |-> Some(2022)])
    @@ ("FY0000" :>
          [fy4 |-> Some(0), fy2 |-> None, year_ended |-> None,
           slash |-> None, month_range |-> None, bare |-> None])
    @@ ("Notes" :>
          [fy4 |-> None, fy2 |-> None, year_ended |-> None,
           slash |-> None, month_range |-> None, bare |-> None])
    @@ ("Current Year" :>
          [fy4 |-> None, fy2 |-> None, year_ended |-> None,
           slash |-> None, month_range |-> None, bare |-> None])
    @@ ("Prior Year" :>
          [fy4 |-> None, fy2 |-> None, year_ended |-> None,
           slash |-> None, month_range |-> None, bare |-> None])
    @@ ("Budget" :>
          [fy4 |-> None, fy2 |-> None, year_ended |-> None,
           slash |-> None, month_range |-> None, bare |-> None])

(***************************************************************************)
(* Cells, labels and columns.                                              *)
(***************************************************************************)
\* one dollar, in cents
Dollar == 100

\* raw cells: an empty cell (NaN), a text that is no amount ("-", "n/a"), a
\* plain amount, and an amount written in parentheses
Blank == [kind |-> "nan", cents |-> 0]

Dash == [kind |-> "text", cents |-> 0]

Amount(dollars) == [kind |-> "number", cents |-> dollars * Dollar]

Cents(c) == [kind |-> "number", cents |-> c]

Paren(dollars) == [kind |-> "paren", cents |-> dollars * Dollar]

\* _clean_amount: None for NaN and for text, the negated amount for "(...)"
clean_amount(val) ==
    CASE val.kind = "number" -> Some(val.cents)
      [] val.kind = "paren"  -> Some(0 - val.cents)
      [] OTHER               -> None

\* `kw in text.lower()`
Contains(text, kw) == kw \in SubstringsOf[text]

\* _matches_keywords
matches_keywords(text, keywords) == \E kw \in keywords : Contains(text, kw)

\* _is_subtotal_row
is_subtotal_row(label) == \E kw \in SUBTOTAL_KEYWORDS : Contains(label, kw)

\* a table: the headers of the value columns (df.columns[1:]) and the rows
DataFrame(columns, rows) == [columns |-> columns, rows |-> rows]

Row(label, cells) == [label |-> label, cells |-> cells]

\* the elements of a sequence
Range(seq) == {seq[i] : i \in 1..Len(seq)}

\* position of column col among the value columns of df
ColumnIndex(df, col) == CHOOSE j \in 1..Len(df.columns) : df.columns[j] = col

\* _clean_amount(row[vcol])
ValueAt(df, i, vcol) == clean_amount(df.rows[i].cells[ColumnIndex(df, vcol)])

\* [c for c in seq if c not in skip]
RECURSIVE Without(_, _)
Without(seq, skip) ==
    IF seq = <<>> THEN <<>>
    ELSE (IF Head(seq) \in skip THEN <<>> ELSE <<Head(seq)>>) \o Without(Tail(seq), skip)

\* seq[:n]
Prefix(seq, n) == SubSeq(seq, 1, IF Len(seq) < n THEN Len(seq) ELSE n)

(***************************************************************************)
(* Period column detection.                                                *)
(***************************************************************************)
\* _extract_year_from_col: the first pattern that matches gives the year
extract_year_from_col(text) ==
    LET m == YearPatternsOf[text]
    IN  IF ~IsNone(m.fy4) THEN m.fy4
        ELSE IF ~IsNone(m.fy2) THEN Some(2000 + m.fy2[1])
        ELSE IF ~IsNone(m.year_ended) THEN m.year_ended
        ELSE IF ~IsNone(m.slash)
             THEN IF m.slash[3] = 2 THEN Some((m.slash[1] \div 100) * 100 + m.slash[2])
                  ELSE Some(m.slash[2])
        ELSE IF ~IsNone(m.month_range) THEN m.month_range
        ELSE m.bare

\* the priority of the first relative term found in the header, None without one
RECURSIVE relative_priority(_, _)
relative_priority(text, terms) ==
    IF terms = <<>> THEN None
    ELSE IF Contains(text, Head(terms)[1]) THEN Some(Head(terms)[2])
    ELSE relative_priority(text, Tail(terms))

\* sorted(cols, key=..., reverse=True): descending and stable
RECURSIVE SortedDescending(_, _)
SortedDescending(cols, key) ==
    IF cols = <<>> THEN <<>>
    ELSE LET top   == CHOOSE k \in {key[c] : c \in Range(cols)} :
                          \A c \in Range(cols) : key[c] <= k
             first == CHOOSE i \in 1..Len(cols) :
                          /\ key[cols[i]] = top
                          /\ \A j \in 1..(i - 1) : key[cols[j]] # top
         IN  <<cols[first]>>
             \o SortedDescending(SubSeq(cols, 1, first - 1)
                                 \o SubSeq(cols, first + 1, Len(cols)), key)

\* df[[label_col] + sorted_cols]
Reordered(df, sorted_cols) ==
    DataFrame(sorted_cols,
              [i \in 1..Len(df.rows) |->
                  Row(df.rows[i].label,
                      [j \in 1..Len(sorted_cols) |->
                          df.rows[i].cells[ColumnIndex(df, sorted_cols[j])]])])

\* _detect_and_sort_periods: (df_sorted, period_labels, used_fallback)
detect_and_sort_periods(df) ==
    LET value_cols == df.columns
        col_years  == {c \in Range(value_cols) : ~IsNone(extract_year_from_col(c))}
        year_key   == [c \in Range(value_cols) |->
                          IF c \in col_years THEN extract_year_from_col(c)[1] ELSE 0]
        col_rel    == {c \in Range(value_cols) :
                          ~IsNone(relative_priority(c, RELATIVE_PRIORITY))}
        rel_key    == [c \in Range(value_cols) |->
                          IF c \in col_rel THEN relative_priority(c, RELATIVE_PRIORITY)[1]
                          ELSE 0]
        result(sorted_cols, used_fallback) ==
            [df |-> Reordered(df, sorted_cols),
             period_labels |-> Prefix(sorted_cols, 3),
             used_fallback |-> used_fallback]
    IN  IF value_cols = <<>>
        THEN [df |-> df, period_labels |-> <<>>, used_fallback |-> FALSE]
        ELSE IF col_years # {}
        THEN result(SortedDescending(value_cols, year_key),
                    Cardinality(col_years) < Len(value_cols))
        ELSE IF col_rel # {}
        THEN result(SortedDescending(value_cols, rel_key), FALSE)
        ELSE result(value_cols, TRUE)

(***************************************************************************)
(* Note reference columns.                                                 *)
(***************************************************************************)
\* the numeric values of one column, in row order
RECURSIVE NumericValues(_, _, _)
NumericValues(df, col, i) ==
    IF i > Len(df.rows) THEN <<>>
    ELSE LET c == ValueAt(df, i, col)
         IN  (IF IsNone(c) THEN <<>> ELSE <<c[1]>>) \o NumericValues(df, col, i + 1)

\* `c != int(c)` for some value of the column
HasDecimal(vals) == \E i \in 1..Len(vals) : vals[i] % Dollar # 0

\* all(1 <= v <= 50 and v == int(v))
AllSmallInt(vals) ==
    \A i \in 1..Len(vals) :
        1 * Dollar <= vals[i] /\ vals[i] <= 50 * Dollar /\ vals[i] % Dollar = 0

\* sorted(vals)
RECURSIVE SortedAscending(_)
SortedAscending(vals) ==
    IF vals = <<>> THEN <<>>
    ELSE LET least == CHOOSE i \in 1..Len(vals) : \A j \in 1..Len(vals) : vals[i] <= vals[j]
         IN  <<vals[least]>>
             \o SortedAscending(SubSeq(vals, 1, least - 1)
                                \o SubSeq(vals, least + 1, Len(vals)))

\* np.median([abs(v) for v in vals]) <= 50, for a non-empty list
MedianAbsAtMost50(vals) ==
    LET s == SortedAscending([i \in 1..Len(vals) |-> Abs(vals[i])])
        n == Len(s)
    IN  IF n % 2 = 1 THEN s[(n + 1) \div 2] <= 50 * Dollar
        ELSE s[n \div 2] + s[n \div 2 + 1] <= 2 * 50 * Dollar

\* _detect_reference_columns: the set of reference columns of df
detect_reference_columns(df) ==
    {col \in Range(df.columns) :
        LET numeric_vals == NumericValues(df, col, 1)
        IN  /\ numeric_vals # <<>>
            /\ ~HasDecimal(numeric_vals)
            /\ AllSmallInt(numeric_vals)
            /\ MedianAbsAtMost50(numeric_vals)}

(***************************************************************************)
(* Value search helpers.                                                   *)
(***************************************************************************)
\* ValueColumns that keeps the reference columns
Mutant_ValueColumns(df, skip_cols) == df.columns

\* value_cols of the search helpers: the value columns outside skip_cols
ValueColumns(df, skip_cols) == Without(df.columns, skip_cols)

\* `not value_cols or col_idx >= len(value_cols)`, col_idx counted from 0
NoSuchColumn(df, col_idx, skip_cols) == col_idx >= Len(ValueColumns(df, skip_cols))

\* vcol = value_cols[col_idx]
SelectedColumn(df, col_idx, skip_cols) == ValueColumns(df, skip_cols)[col_idx + 1]

\* the least element of a non-empty set of row numbers
First(rows) == CHOOSE i \in rows : \A j \in rows : i <= j

\* _find_value: the first valued matching subtotal row, else the first valued
\* matching row
find_value(df, keywords, col_idx, skip_cols) ==
    IF NoSuchColumn(df, col_idx, skip_cols) THEN None
    ELSE LET vcol     == SelectedColumn(df, col_idx, skip_cols)
             matching == {i \in 1..Len(df.rows) :
                             /\ matches_keywords(df.rows[i].label, keywords)
                             /\ ~IsNone(ValueAt(df, i, vcol))}
             subtotal == {i \in matching : is_subtotal_row(df.rows[i].label)}
         IN  IF subtotal # {} THEN ValueAt(df, First(subtotal), vcol)
             ELSE IF matching # {} THEN ValueAt(df, First(matching), vcol)
             ELSE None

\* find_value_prefer_subtotal that searches with the fallback keywords only
Mutant_find_value_prefer_subtotal(df, total_keywords, fallback_keywords, col_idx, skip_cols) ==
    find_value(df, fallback_keywords, col_idx, skip_cols)

\* _find_value_prefer_subtotal
find_value_prefer_subtotal(df, total_keywords, fallback_keywords, col_idx, skip_cols) ==
    LET result == find_value(df, total_keywords, col_idx, skip_cols)
    IN  IF ~IsNone(result) THEN result
        ELSE find_value(df, fallback_keywords, col_idx, skip_cols)

\* Components that never looks at seen_labels
RECURSIVE Mutant_Components(_, _, _, _, _)
Mutant_Components(df, keywords, vcol, i, seen_labels) ==
    IF i > Len(df.rows) THEN <<>>
    ELSE LET label == df.rows[i].label
             val   == ValueAt(df, i, vcol)
         IN  IF /\ ~is_subtotal_row(label)
                /\ matches_keywords(label, keywords)
                /\ ~IsNone(val)
             THEN <<<<label, val[1]>>>>
                  \o Mutant_Components(df, keywords, vcol, i + 1, seen_labels)
             ELSE Mutant_Components(df, keywords, vcol, i + 1, seen_labels)

\* the second loop of _sum_all_matching from row i on: the (label, value)
\* components, one per lower-cased label
RECURSIVE Components(_, _, _, _, _)
Components(df, keywords, vcol, i, seen_labels) ==
    IF i > Len(df.rows) THEN <<>>
    ELSE LET label == df.rows[i].label
             val   == ValueAt(df, i, vcol)
         IN  IF /\ ~is_subtotal_row(label)
                /\ matches_keywords(label, keywords)
                /\ LowerOf[label] \notin seen_labels
                /\ ~IsNone(val)
             THEN <<<<label, val[1]>>>>
                  \o Components(df, keywords, vcol, i + 1, seen_labels \cup {LowerOf[label]})
             ELSE Components(df, keywords, vcol, i + 1, seen_labels)

\* sum of the values of a list of components
RECURSIVE SumOf(_)
SumOf(components) ==
    IF components = <<>> THEN 0 ELSE Head(components)[2] + SumOf(Tail(components))

\* _sum_all_matching: (total, components)
sum_all_matching(df, keywords, col_idx, skip_cols) ==
    IF NoSuchColumn(df, col_idx, skip_cols) THEN [total |-> None, components |-> <<>>]
    ELSE LET vcol     == SelectedColumn(df, col_idx, skip_cols)
             subtotal == {i \in 1..Len(df.rows) :
                             /\ matches_keywords(df.rows[i].label, keywords)
                             /\ is_subtotal_row(df.rows[i].label)
                             /\ ~IsNone(ValueAt(df, i, vcol))}
             components == Components(df, keywords, vcol, 1, {})
         IN  IF subtotal # {}
             THEN LET i == First(subtotal)
                  IN  [total |-> ValueAt(df, i, vcol),
                       components |-> <<<<df.rows[i].label, ValueAt(df, i, vcol)[1]>>>>]
             ELSE [total |-> IF components # <<>> THEN Some(SumOf(components)) ELSE None,
                   components |-> components]

\* the loop of _sum_section_lines from row i on; `found` is the value of the
\* section's own subtotal row once it is met
RECURSIVE SectionWalk(_, _, _, _, _, _)
SectionWalk(df, keywords, vcol, i, in_section, section_items) ==
    IF i > Len(df.rows) THEN [found |-> None, section_items |-> section_items]
    ELSE LET label == df.rows[i].label
             val   == ValueAt(df, i, vcol)
         IN  IF ~in_section
             THEN SectionWalk(df, keywords, vcol, i + 1,
                              matches_keywords(label, keywords) /\ IsNone(val),
                              section_items)
             ELSE IF IsNone(val)
             THEN SectionWalk(df, keywords, vcol, i + 1, TRUE, section_items)
             ELSE IF is_subtotal_row(label) /\ matches_keywords(label, keywords)
             THEN [found |-> val, section_items |-> section_items]
             ELSE IF is_subtotal_row(label)
             THEN [found |-> None, section_items |-> section_items]
             ELSE SectionWalk(df, keywords, vcol, i + 1, TRUE,
                              Append(section_items, <<label, val[1]>>))

\* _sum_section_lines
sum_section_lines(df, section_header_keywords, col_idx, skip_cols) ==
    IF NoSuchColumn(df, col_idx, skip_cols) THEN None
    ELSE LET walk == SectionWalk(df, section_header_keywords,
                                 SelectedColumn(df, col_idx, skip_cols), 1, FALSE, <<>>)
         IN  IF ~IsNone(walk.found) THEN walk.found
             ELSE IF walk.section_items # <<>> THEN Some(SumOf(walk.section_items))
             ELSE None

(***************************************************************************)
(* P&L extraction.                                                         *)
(***************************************************************************)
\* _extract_period_data
extract_period_data(df, col_idx, skip_cols) ==
    LET g(keywords) == find_value(df, keywords, col_idx, skip_cols)
        total_revenue == find_value_prefer_subtotal(df, REVENUE_TOTAL_KEYWORDS,
                                                    REVENUE_KEYWORDS, col_idx, skip_cols)
        revenue == IF IsNone(total_revenue)
                   THEN sum_section_lines(df, {"revenue", "income", "sales"},
                                          col_idx, skip_cols)
                   ELSE total_revenue
        total_cogs == find_value_prefer_subtotal(df, COGS_TOTAL_KEYWORDS, COGS_KEYWORDS,
                                                 col_idx, skip_cols)
        cogs == IF IsNone(total_cogs)
                THEN sum_section_lines(df, {"cost of sales", "cost of goods", "direct costs"},
                                       col_idx, skip_cols)
                ELSE total_cogs
        gross_profit == g(GROSS_PROFIT_KEYWORDS)
        ebit    == g(EBIT_KEYWORDS)
        ebitda  == g(EBITDA_KEYWORDS)
        dep      == sum_all_matching(df, DEPRECIATION_KEYWORDS, col_idx, skip_cols)
        interest == sum_all_matching(df, INTEREST_KEYWORDS, col_idx, skip_cols)
        tax      == sum_all_matching(df, TAX_KEYWORDS, col_idx, skip_cols)
    IN  [revenue |-> revenue,
         cogs |-> cogs,
         gross_profit |->
            IF IsNone(gross_profit) /\ Truthy(revenue) /\ ~IsNone(cogs)
            THEN Some(revenue[1] - cogs[1]) ELSE gross_profit,
         operating_expenses |-> g(OPERATING_EXPENSES_KEYWORDS),
         ebit |-> ebit,
         ebitda |->
            IF IsNone(ebitda) /\ ~IsNone(ebit)
            THEN Some(ebit[1] + OrZero(dep.total)) ELSE ebitda,
         net_profit |-> g(NET_PROFIT_KEYWORDS),
         depreciation |-> dep.total,
         interest_expense |-> interest.total,
         tax_expense |-> tax.total,
         _dep_components |-> dep.components,
         _interest_components |-> interest.components,
         _tax_components |-> tax.components,
         _ebit_parsed |-> ebit]

(***************************************************************************)
(* Balance sheet extraction, with section tracking.                        *)
(***************************************************************************)
\* data[key] = val
SetKey(d, key, val) == (key :> val) @@ d

\* `if key not in data and cond: data[key] = val`
SetIfNew(d, key, cond, val) == IF key \notin DOMAIN d /\ cond THEN SetKey(d, key, val) ELSE d

\* _inventory_source is held as <<source>> or <<source, detail>>, the detail
\* being the text in parentheses
InventorySource(source, detail) == <<source, detail>>

NotFound == <<"not_found">>

\* the walk's state before the first row
WalkStart ==
    [in_current_assets |-> FALSE, in_non_current_assets |-> FALSE,
     in_current_liabilities |-> FALSE, in_equity |-> FALSE,
     data |-> <<>>, bs_line_items |-> <<>>]

\* the four section flags set at once
InSection(w, ca, nca, cl, eq) ==
    [w EXCEPT !.in_current_assets = ca, !.in_non_current_assets = nca,
              !.in_current_liabilities = cl, !.in_equity = eq]

\* a row without a value: section transitions from header rows
HeaderRow(w, label) ==
    IF /\ \/ Contains(label, "non-current assets") \/ Contains(label, "noncurrent assets")
          \/ Contains(label, "fixed assets") \/ Contains(label, "plant and equipment")
       /\ ~Contains(label, "total")
    THEN InSection(w, FALSE, TRUE, FALSE, FALSE)
    ELSE IF /\ Contains(label, "current assets")
            /\ ~Contains(label, "non") /\ ~Contains(label, "total")
    THEN InSection(w, TRUE, FALSE, FALSE, FALSE)
    ELSE IF /\ Contains(label, "current liabilities")
            /\ ~Contains(label, "non") /\ ~Contains(label, "total")
    THEN InSection(w, FALSE, FALSE, TRUE, FALSE)
    ELSE IF \/ Contains(label, "non-current liabilities")
            \/ Contains(label, "long-term liabilities")
    THEN [w EXCEPT !.in_current_liabilities = FALSE]
    ELSE IF /\ \/ Contains(label, "equity") \/ Contains(label, "net assets")
               \/ Contains(label, "shareholders")
            /\ ~Contains(label, "total")
    THEN InSection(w, FALSE, FALSE, FALSE, TRUE)
    ELSE w

\* the subsection a line item is recorded under
Subsection(w) ==
    IF w.in_current_assets THEN "current_assets"
    ELSE IF w.in_non_current_assets THEN "non_current_assets"
    ELSE IF w.in_current_liabilities THEN "current_liabilities"
    ELSE IF w.in_equity THEN "equity"
    ELSE "unknown"

\* a valued row that is no total row: the line item and the field captures
LineItem(w, label, val) ==
    LET item == [label |-> label, value |-> val, source |-> "balance_sheet",
                 subsection |-> Subsection(w), is_subtotal |-> is_subtotal_row(label)]
        m(keywords) == matches_keywords(label, keywords)
        d1  == SetIfNew(w.data, "cash", m(CASH_KEYWORDS), val)
        d2  == SetIfNew(d1, "accounts_receivable", m(RECEIVABLES_KEYWORDS), val)
        d3  == IF "inventory" \notin DOMAIN d2 /\ w.in_current_assets /\ m(INVENTORY_KEYWORDS)
               THEN SetKey(SetKey(d2, "inventory", val), "_inventory_source",
                           InventorySource("balance_sheet/current_assets", label))
               ELSE d2
        d4  == SetIfNew(d3, "current_assets", m(CURRENT_ASSETS_KEYWORDS), val)
        d5  == SetIfNew(d4, "non_current_assets",
                        m(NON_CURRENT_ASSETS_KEYWORDS)
                        /\ (is_subtotal_row(label) \/ w.in_non_current_assets), val)
        d6  == SetIfNew(d5, "total_assets", m(TOTAL_ASSETS_KEYWORDS), val)
        d7  == SetIfNew(d6, "accounts_payable", m(PAYABLES_KEYWORDS), val)
        d8  == SetIfNew(d7, "current_liabilities", m(CURRENT_LIABILITIES_KEYWORDS), val)
        d9  == SetIfNew(d8, "non_current_liabilities",
                        m(NON_CURRENT_LIABILITIES_KEYWORDS), val)
        d10 == SetIfNew(d9, "total_liabilities", m(TOTAL_LIABILITIES_KEYWORDS), val)
        d11 == SetIfNew(d10, "equity",
                        m(EQUITY_KEYWORDS) /\ (is_subtotal_row(label) \/ w.in_equity), val)
        d12 == SetIfNew(d11, "total_debt", m(DEBT_KEYWORDS), val)
    IN  [w EXCEPT !.data = d12, !.bs_line_items = Append(@, item)]

\* a row with a value: section transitions from total rows, else a line item
ValuedRow(w, label, val) ==
    IF Contains(label, "total current assets")
    THEN [w EXCEPT !.data = SetKey(@, "current_assets", val), !.in_current_assets = FALSE]
    ELSE IF \/ Contains(label, "total non-current assets")
            \/ Contains(label, "total fixed assets")
    THEN [w EXCEPT !.data = SetKey(@, "non_current_assets", val),
                   !.in_non_current_assets = FALSE]
    ELSE IF Contains(label, "total current liabilities")
    THEN [w EXCEPT !.data = SetKey(@, "current_liabilities", val),
                   !.in_current_liabilities = FALSE]
    ELSE IF Contains(label, "total non-current liabilities")
    THEN [w EXCEPT !.data = SetIfNew(@, "non_current_liabilities", TRUE, val)]
    ELSE IF Contains(label, "total assets") /\ ~Contains(label, "non")
    THEN [w EXCEPT !.data = SetKey(@, "total_assets", val)]
    ELSE IF /\ Contains(label, "total liabilities")
            /\ ~Contains(label, "non-current") /\ ~Contains(label, "current")
    THEN [w EXCEPT !.data = SetKey(@, "total_liabilities", val)]
    ELSE LineItem(w, label, val)

\* the loop over the rows, from row i on
RECURSIVE BalanceSheetWalk(_, _, _, _)
BalanceSheetWalk(df, vcol, i, w) ==
    IF i > Len(df.rows) THEN w
    ELSE LET label == df.rows[i].label
             val   == ValueAt(df, i, vcol)
         IN  BalanceSheetWalk(df, vcol, i + 1,
                              IF IsNone(val) THEN HeaderRow(w, label)
                              ELSE ValuedRow(w, label, val))

\* the non-None values among the listed keys of a dict
RECURSIVE Parts(_, _)
Parts(d, keys) ==
    IF keys = <<>> THEN <<>>
    ELSE (IF IsNone(Get(d, Head(keys))) THEN <<>> ELSE <<<<Head(keys), Get(d, Head(keys))[1]>>>>)
         \o Parts(d, Tail(keys))

\* the fallback derivations after the walk
BalanceSheetFallbacks(walked) ==
    LET d1 == IF "inventory" \notin DOMAIN walked
              THEN SetKey(SetKey(walked, "inventory", None), "_inventory_source", NotFound)
              ELSE walked
        parts == Parts(d1, <<"cash", "accounts_receivable", "inventory">>)
        d2 == IF IsNone(Get(d1, "current_assets")) /\ parts # <<>>
              THEN SetKey(d1, "current_assets", Some(SumOf(parts))) ELSE d1
        ca  == Get(d2, "current_assets")
        nca == Get(d2, "non_current_assets")
        d3 == IF IsNone(Get(d2, "total_assets")) /\ ~IsNone(ca) /\ ~IsNone(nca)
              THEN SetKey(d2, "total_assets", Some(ca[1] + nca[1])) ELSE d2
        cl  == Get(d3, "current_liabilities")
        ncl == Get(d3, "non_current_liabilities")
    IN  IF IsNone(Get(d3, "total_liabilities")) /\ ~IsNone(cl) /\ ~IsNone(ncl)
        THEN SetKey(d3, "total_liabilities", Some(cl[1] + ncl[1])) ELSE d3

\* _extract_balance_sheet_data
extract_balance_sheet_data(df, col_idx, skip_cols) ==
    IF NoSuchColumn(df, col_idx, skip_cols) THEN <<>>
    ELSE LET w == BalanceSheetWalk(df, SelectedColumn(df, col_idx, skip_cols), 1, WalkStart)
         IN  SetKey(BalanceSheetFallbacks(w.data), "_bs_line_items", w.bs_line_items)

(***************************************************************************)
(* Cash flow extraction.                                                   *)
(***************************************************************************)
\* _extract_cashflow_data
extract_cashflow_data(df, col_idx, skip_cols) ==
    LET g(keywords) == find_value(df, keywords, col_idx, skip_cols)
    IN  [operating_cash_flow |-> g(OPERATING_CF_KEYWORDS),
         investing_cash_flow |-> g(INVESTING_CF_KEYWORDS),
         financing_cash_flow |-> g(FINANCING_CF_KEYWORDS)]

(***************************************************************************)
(* The public parse functions and the merge.  A period the function        *)
(* returns as None is held as the empty dict, which is what every reader   *)
(* of the result turns it into (`.get(period) or {}`).                     *)
(***************************************************************************)
\* parse_xero_pl, from the cleaned table on
parse_xero_pl(df) ==
    LET sorted    == detect_and_sort_periods(df)
        df_sorted == sorted.df
        ref_cols  == detect_reference_columns(df_sorted)
        n_periods == Len(df_sorted.columns)
    IN  [current |-> extract_period_data(df_sorted, 0, ref_cols),
         prior   |-> IF n_periods >= 2 THEN extract_period_data(df_sorted, 1, ref_cols)
                     ELSE <<>>,
         prior2  |-> IF n_periods >= 3 THEN extract_period_data(df_sorted, 2, ref_cols)
                     ELSE <<>>,
         period_labels |-> sorted.period_labels,
         period_fallback_warning |-> sorted.used_fallback,
         reference_columns |-> ref_cols,
         raw_df |-> df_sorted,
         type |-> "pl"]

\* parse_xero_balance_sheet, from the cleaned table on
parse_xero_balance_sheet(df) ==
    LET sorted    == detect_and_sort_periods(df)
        df_sorted == sorted.df
        ref_cols  == detect_reference_columns(df_sorted)
        n_periods == Len(df_sorted.columns)
    IN  [current |-> extract_balance_sheet_data(df_sorted, 0, ref_cols),
         prior   |-> IF n_periods >= 2 THEN extract_balance_sheet_data(df_sorted, 1, ref_cols)
                     ELSE <<>>,
         prior2  |-> IF n_periods >= 3 THEN extract_balance_sheet_data(df_sorted, 2, ref_cols)
                     ELSE <<>>,
         period_labels |-> sorted.period_labels,
         period_fallback_warning |-> sorted.used_fallback,
         reference_columns |-> ref_cols,
         raw_df |-> df_sorted,
         type |-> "bs"]

\* parse_xero_cashflow, from the cleaned table on
parse_xero_cashflow(df) ==
    LET sorted    == detect_and_sort_periods(df)
        df_sorted == sorted.df
        ref_cols  == detect_reference_columns(df_sorted)
        n_periods == Len(df_sorted.columns)
    IN  [current |-> extract_cashflow_data(df_sorted, 0, ref_cols),
         prior   |-> IF n_periods >= 2 THEN extract_cashflow_data(df_sorted, 1, ref_cols)
                     ELSE <<>>,
         period_labels |-> sorted.period_labels,
         period_fallback_warning |-> sorted.used_fallback,
         raw_df |-> df_sorted,
         type |-> "cf"]

\* periods = ["current", "prior", "prior2"]
Periods == {"current", "prior", "prior2"}

\* `any(v is not None for v in rec.values())`
AnyNotNone(rec) == \E k \in DOMAIN rec : k \in ListKeys \/ ~IsNone(rec[k])

\* what the caller passes for a statement that was not uploaded
NotUploaded == [current |-> <<>>, prior |-> <<>>]

\* merge_financial_data; cf_data is None (<<>>) or the cash flow parse
merge_financial_data(pl_data, bs_data, cf_data) ==
    LET pl(period) == Get(pl_data, period)
        bs(period) == Get(bs_data, period)
        cf(period) == Get(cf_data, period)
        kept == {period \in Periods : AnyNotNone(pl(period)) \/ AnyNotNone(bs(period))}
    IN  [data |-> [period \in kept |-> cf(period) @@ bs(period) @@ pl(period)],
         period_labels |->
            IF "period_labels" \in DOMAIN pl_data THEN pl_data.period_labels
            ELSE <<"Current", "Prior">>,
         reference_columns |->
            (IF "reference_columns" \in DOMAIN pl_data THEN pl_data.reference_columns ELSE {})
            \cup
            (IF "reference_columns" \in DOMAIN bs_data THEN bs_data.reference_columns ELSE {})]

(***************************************************************************)
(* The Xero path of the application, one step per parse call.              *)
(***************************************************************************)
\* pl_data = parse_xero_pl(uploaded_pl) if uploaded_pl else {...}
ParseXeroPL ==
    /\ pc = "xero_pl"
    /\ parsed' = SetKey(parsed, "pl",
                        IF IsNone(uploads.pl) THEN NotUploaded
                        ELSE parse_xero_pl(uploads.pl[1]))
    /\ pc' = "xero_bs"
    /\ UNCHANGED <<given, data, benchmarks, metrics, red_flags, self_checks,
                   has_self_check_fails, has_self_check_warns, uploads, merged>>
    /\ UNCHANGED appVars

\* bs_data = parse_xero_balance_sheet(uploaded_bs) if uploaded_bs else {...}
ParseXeroBalanceSheet ==
    /\ pc = "xero_bs"
    /\ parsed' = SetKey(parsed, "bs",
                        IF IsNone(uploads.bs) THEN NotUploaded
                        ELSE parse_xero_balance_sheet(uploads.bs[1]))
    /\ pc' = "xero_cf"
    /\ UNCHANGED <<given, data, benchmarks, metrics, red_flags, self_checks,
                   has_self_check_fails, has_self_check_warns, uploads, merged>>
    /\ UNCHANGED appVars

\* cf_data = parse_xero_cashflow(uploaded_cf) if uploaded_cf else None
ParseXeroCashflow ==
    /\ pc = "xero_cf"
    /\ parsed' = SetKey(parsed, "cf",
                        IF IsNone(uploads.cf) THEN <<>>
                        ELSE parse_xero_cashflow(uploads.cf[1]))
    /\ pc' = "xero_merge"
    /\ UNCHANGED <<given, data, benchmarks, metrics, red_flags, self_checks,
                   has_self_check_fails, has_self_check_warns, uploads, merged>>
    /\ UNCHANGED appVars

\* merged = merge_financial_data(pl_data, bs_data, cf_data)
MergeFinancialData ==
    /\ pc = "xero_merge"
    /\ merged' = merge_financial_data(parsed.pl, parsed.bs, parsed.cf)
    /\ pc' = "xero_merged"
    /\ UNCHANGED <<given, data, benchmarks, metrics, red_flags, self_checks,
                   has_self_check_fails, has_self_check_warns, uploads, parsed>>
    /\ UNCHANGED appVars

NextXero ==
    ParseXeroPL \/ ParseXeroBalanceSheet \/ ParseXeroCashflow \/ MergeFinancialData

\* the state before the parsers run on the given uploads
InitParsers(files) ==
    /\ uploads \in files
    /\ parsed = <<>>
    /\ merged = <<>>
    /\ session_state = <<>>
    /\ page = <<>>
    /\ given = <<>>
    /\ data = <<>>
    /\ benchmarks = <<>>
    /\ metrics = <<>>
    /\ red_flags = <<>>
    /\ self_checks = <<>>
    /\ has_self_check_fails = FALSE
    /\ has_self_check_warns = FALSE

\* the Xero path on the given uploads: [pl, bs, cf], each None or Some(table)
InitXero(files) == InitParsers(files) /\ pc = "xero_pl"

XeroUploads(pl, bs, cf) == [pl |-> pl, bs |-> bs, cf |-> cf]

(***************************************************************************)
(* parser/pdf_parser.py.  A text line is its wording, the numbers printed  *)
(* in it from left to right (cells of kind "number", "paren" or "minus")   *)
(* and whether it holds a dollar sign.  A table is a DataFrame as above,   *)
(* its cells being the strings pdfplumber returns.                         *)
(***************************************************************************)
\* a number printed with a leading minus sign
Minus(dollars) == [kind |-> "minus", cents |-> dollars * Dollar]

Line(text, tokens, dollar) == [text |-> text, tokens |-> tokens, dollar |-> dollar]

\* _clean_amount of pdf_parser.py: None for an empty cell and for text, the
\* negated amount for "(...)" and for a leading minus
pdf_clean_amount(val) ==
    CASE val.kind = "number" -> Some(val.cents)
      [] val.kind = "paren"  -> Some(0 - val.cents)
      [] val.kind = "minus"  -> Some(0 - val.cents)
      [] OTHER               -> None

\* _is_subtotal_row of pdf_parser.py
pdf_is_subtotal_row(label) == \E kw \in PDF_SUBTOTAL_KEYWORDS : Contains(label, kw)

\* _keyword_match
keyword_match(text, keywords) == \E kw \in keywords : Contains(text, kw)

\* re.findall(r"[\d,]{4,}", line) finds something: some number of the line has
\* four or more digits and commas before its decimal point
HasLargeNumber(line) ==
    \E i \in 1..Len(line.tokens) : line.tokens[i].cents \div Dollar >= 1000

\* _is_likely_note_ref_value
is_likely_note_ref_value(val, line) ==
    IF ~(1 * Dollar <= val /\ val <= 50 * Dollar /\ val % Dollar = 0) THEN FALSE
    ELSE IF HasLargeNumber(line) THEN TRUE
    ELSE IF line.dollar THEN FALSE
    ELSE TRUE

\* re.search(pattern, line): the leftmost number of the line among the kinds
\* the pattern can match, None without one
RECURSIVE FirstToken(_, _)
FirstToken(tokens, kinds) ==
    IF tokens = <<>> THEN None
    ELSE IF Head(tokens).kind \in kinds THEN Some(Head(tokens))
    ELSE FirstToken(Tail(tokens), kinds)

\* _find_amount_in_line: the parenthesised pattern, then the minus pattern,
\* then the plain pattern, which matches the digits of any number
find_amount_in_line(line) ==
    LET paren == FirstToken(line.tokens, {"paren"})
        minus == FirstToken(line.tokens, {"minus"})
        plain == FirstToken(line.tokens, {"paren", "minus", "number"})
        v1 == IF IsNone(paren) THEN None ELSE pdf_clean_amount(paren[1])
        v2 == IF IsNone(minus) THEN None ELSE pdf_clean_amount(minus[1])
        v3 == IF IsNone(plain) THEN None ELSE Some(plain[1].cents)
        accepted(v) == ~IsNone(v) /\ ~is_likely_note_ref_value(v[1], line)
    IN  IF accepted(v1) THEN v1
        ELSE IF accepted(v2) THEN v2
        ELSE IF accepted(v3) THEN v3
        ELSE None

\* label_col = df.columns[0], which a DataFrame of the model leaves out
LabelColumn == "Account"

\* the values of column j that _clean_amount accepts, from row i on
RECURSIVE CleanedValues(_, _, _)
CleanedValues(df, j, i) ==
    IF i > Len(df.rows) THEN <<>>
    ELSE LET c == pdf_clean_amount(df.rows[i].cells[j])
         IN  (IF IsNone(c) THEN <<>> ELSE <<c[1]>>) \o CleanedValues(df, j, i + 1)

\* _classify_table_columns from column j of the value columns on:
\* (value_cols, ref_cols) without the label column
RECURSIVE ClassifyFrom(_, _)
ClassifyFrom(df, j) ==
    IF j > Len(df.columns) THEN [value_cols |-> <<>>, ref_cols |-> <<>>]
    ELSE LET col          == df.columns[j]
             rest         == ClassifyFrom(df, j + 1)
             numeric_vals == CleanedValues(df, j, 1)
         IN  IF numeric_vals = <<>> THEN rest
             ELSE IF /\ AllSmallInt(numeric_vals)
                     /\ MedianAbsAtMost50(numeric_vals)
                     /\ ~HasDecimal(numeric_vals)
             THEN [rest EXCEPT !.ref_cols = <<col>> \o @]
             ELSE [rest EXCEPT !.value_cols = <<col>> \o @]

\* `df.empty or len(df.columns) < 2`
EmptyTable(df) == df.rows = <<>> \/ df.columns = <<>>

\* _classify_table_columns
classify_table_columns(df) ==
    IF EmptyTable(df)
    THEN [value_cols |-> <<LabelColumn>> \o df.columns, ref_cols |-> <<>>]
    ELSE LET c == ClassifyFrom(df, 1)
         IN  [value_cols |-> <<LabelColumn>> \o c.value_cols, ref_cols |-> c.ref_cols]

\* the loop over SECTION_KEYWORDS, which ends at the first field that is not
\* set yet and whose keywords match, with or without a value for it
RECURSIVE GeneralFields(_, _, _, _)
GeneralFields(d, text, amount, fields) ==
    IF fields = <<>> THEN d
    ELSE IF Head(fields)[1] \notin DOMAIN d /\ keyword_match(text, Head(fields)[2])
    THEN IF IsNone(amount) THEN d ELSE SetKey(d, Head(fields)[1], amount)
    ELSE GeneralFields(d, text, amount, Tail(fields))

(***************************************************************************)
(* _parse_text_to_data                                                     *)
(***************************************************************************)
\* the state of the walk before the first line
TextStart ==
    [data |-> <<>>, current_pl_section |-> None, current_bs_section |-> None,
     in_balance_sheet |-> FALSE, in_pl |-> TRUE,
     revenue_candidates |-> <<>>, cogs_candidates |-> <<>>]

\* the first section of PL_SECTION_HEADERS whose keywords match, None without one
RECURSIVE PLSection(_, _)
PLSection(text, sections) ==
    IF sections = <<>> THEN None
    ELSE IF keyword_match(text, Head(sections)[2]) THEN Some(Head(sections)[1])
    ELSE PLSection(text, Tail(sections))

\* a P&L line without an amount
PLHeader(w, text) ==
    LET section == PLSection(text, PDF_PL_SECTION_HEADERS)
    IN  IF IsNone(section) THEN w ELSE [w EXCEPT !.current_pl_section = section]

\* SECTION_KEYWORDS[field]
KeywordsOf(field) ==
    LET i == CHOOSE k \in 1..Len(SECTION_KEYWORDS) : SECTION_KEYWORDS[k][1] = field
    IN  SECTION_KEYWORDS[i][2]

\* a P&L line with an amount: the candidates of revenue and COGS
PLLine(w, text, amount) ==
    IF w.current_pl_section = Some("revenue") \/ keyword_match(text, KeywordsOf("revenue"))
    THEN [w EXCEPT !.revenue_candidates = Append(@, <<pdf_is_subtotal_row(text), amount>>)]
    ELSE IF w.current_pl_section = Some("cogs") \/ keyword_match(text, KeywordsOf("cogs"))
    THEN [w EXCEPT !.cogs_candidates = Append(@, <<pdf_is_subtotal_row(text), amount>>)]
    ELSE w

\* a balance sheet line without an amount
BSHeader(w, text) ==
    IF \/ Contains(text, "non-current assets") \/ Contains(text, "noncurrent assets")
       \/ Contains(text, "fixed assets")
    THEN [w EXCEPT !.current_bs_section = Some("non_current_assets")]
    ELSE IF Contains(text, "current assets") /\ ~Contains(text, "total")
    THEN [w EXCEPT !.current_bs_section = Some("current_assets")]
    ELSE IF /\ Contains(text, "current liabilities")
            /\ ~Contains(text, "non") /\ ~Contains(text, "total")
    THEN [w EXCEPT !.current_bs_section = Some("current_liabilities")]
    ELSE IF \/ Contains(text, "non-current liabilities")
            \/ Contains(text, "long-term liabilities")
    THEN [w EXCEPT !.current_bs_section = Some("non_current_liabilities")]
    ELSE IF Contains(text, "equity") /\ ~Contains(text, "total")
    THEN [w EXCEPT !.current_bs_section = Some("equity")]
    ELSE w

\* a balance sheet line with an amount: inventory from current assets only
BSLine(w, text, amount) ==
    IF "inventory" \in DOMAIN w.data /\ w.current_bs_section # Some("current_assets")
    THEN w
    ELSE IF /\ w.current_bs_section = Some("current_assets")
            /\ keyword_match(text, PDF_INVENTORY_KEYWORDS)
            /\ "inventory" \notin DOMAIN w.data
    THEN [w EXCEPT !.data = SetKey(SetKey(@, "inventory", Some(amount)), "_inventory_source",
                                   InventorySource("balance_sheet/current_assets", text))]
    ELSE w

\* a line with an amount: the P&L candidates, the balance sheet inventory, then
\* the general field extraction
ValuedLine(w, text, amount) ==
    LET PLStep(v) == IF v.in_pl THEN PLLine(v, text, amount) ELSE v
        BSStep(v) == IF v.in_balance_sheet THEN BSLine(v, text, amount) ELSE v
        General(v) == [v EXCEPT !.data = GeneralFields(@, text, Some(amount),
                                                       SECTION_KEYWORDS)]
    IN  General(BSStep(PLStep(w)))

\* one pass of the loop over the lines, the amount of the line being given
TextLineWith(w, text, amount) ==
    IF \/ Contains(text, "balance sheet")
       \/ Contains(text, "statement of financial position")
    THEN [w EXCEPT !.in_balance_sheet = TRUE, !.in_pl = FALSE,
                   !.current_pl_section = None]
    ELSE IF \/ Contains(text, "profit and loss") \/ Contains(text, "income statement")
            \/ Contains(text, "statement of profit")
            \/ Contains(text, "statement of comprehensive income")
    THEN [w EXCEPT !.in_pl = TRUE, !.in_balance_sheet = FALSE,
                   !.current_bs_section = None]
    ELSE IF ~IsNone(amount) THEN ValuedLine(w, text, amount[1])
    ELSE IF w.in_pl THEN PLHeader(w, text)
    ELSE IF w.in_balance_sheet THEN BSHeader(w, text)
    ELSE w

\* one pass of the loop over the lines
TextLine(w, line) == TextLineWith(w, line.text, find_amount_in_line(line))

\* the loop over the lines, from line i on
RECURSIVE TextWalk(_, _, _)
TextWalk(lines, i, w) ==
    IF i > Len(lines) THEN w ELSE TextWalk(lines, i + 1, TextLine(w, lines[i]))

\* [v for is_total, v in candidates if is_total]
RECURSIVE Subtotals(_)
Subtotals(candidates) ==
    IF candidates = <<>> THEN <<>>
    ELSE (IF Head(candidates)[1] THEN <<Head(candidates)[2]>> ELSE <<>>)
         \o Subtotals(Tail(candidates))

\* the subtotal preference applied to the candidates of one field
PreferSubtotal(d, field, candidates) ==
    IF candidates = <<>> THEN d
    ELSE IF Subtotals(candidates) # <<>>
    THEN SetKey(d, field, Some(Subtotals(candidates)[Len(Subtotals(candidates))]))
    ELSE IF field \notin DOMAIN d
    THEN SetKey(d, field, Some(candidates[Len(candidates)][2]))
    ELSE d

\* the note stored with a missing inventory
InventoryNote == <<"Inventory not identified on Balance Sheet">>

\* `if "inventory" not in data`: the source not_found and the note
MarkNotFound(d) ==
    IF "inventory" \notin DOMAIN d
    THEN SetKey(SetKey(d, "_inventory_source", NotFound), "_inventory_note", InventoryNote)
    ELSE d

\* gross_profit, ebit and ebitda derived when missing
DeriveGrossProfit(d) ==
    IF "gross_profit" \notin DOMAIN d /\ "revenue" \in DOMAIN d /\ "cogs" \in DOMAIN d
    THEN SetKey(d, "gross_profit", Some(d.revenue[1] - d.cogs[1])) ELSE d

DeriveEbit(d) ==
    IF "ebit" \notin DOMAIN d /\ "net_profit" \in DOMAIN d
    THEN SetKey(d, "ebit", Some(d.net_profit[1] + OrZero(Get(d, "tax_expense"))
                                + OrZero(Get(d, "interest_expense"))))
    ELSE d

DeriveEbitda(d) ==
    IF "ebitda" \notin DOMAIN d /\ "ebit" \in DOMAIN d
    THEN SetKey(d, "ebitda", Some(d.ebit[1] + OrZero(Get(d, "depreciation"))))
    ELSE d

\* the steps of _parse_text_to_data after the loop, on the state the loop left
AfterTextWalk(w) ==
    DeriveEbitda(DeriveEbit(DeriveGrossProfit(MarkNotFound(
        PreferSubtotal(PreferSubtotal(w.data, "revenue", w.revenue_candidates),
                       "cogs", w.cogs_candidates)))))

\* _parse_text_to_data, on the lines of the text that are not blank
parse_text_to_data(lines) == AfterTextWalk(TextWalk(lines, 1, TextStart))

(***************************************************************************)
(* _parse_tables_to_data                                                   *)
(***************************************************************************)
\* one row of a table read in value_col
TableRow(d, df, i, value_col) ==
    LET label == df.rows[i].label
        val   == pdf_clean_amount(df.rows[i].cells[ColumnIndex(df, value_col)])
    IN  IF label = "" \/ LowerOf[label] = "nan" THEN d
        ELSE IF keyword_match(label, PDF_INVENTORY_KEYWORDS)
        THEN IF "inventory" \notin DOMAIN d /\ ~IsNone(val) /\ val[1] > 0
             THEN SetKey(SetKey(d, "inventory", val), "_inventory_source",
                         InventorySource("table_extraction", label))
             ELSE d
        ELSE GeneralFields(d, label, val, SECTION_KEYWORDS)

\* the loop over the rows of one table, from row i on
RECURSIVE TableRows(_, _, _, _)
TableRows(d, df, i, value_col) ==
    IF i > Len(df.rows) THEN d
    ELSE TableRows(TableRow(d, df, i, value_col), df, i + 1, value_col)

\* the loop over the tables, from table t on
RECURSIVE TablesWalk(_, _, _)
TablesWalk(tables, t, acc) ==
    IF t > Len(tables) THEN acc
    ELSE LET df       == tables[t]
             ref_cols == classify_table_columns(df).ref_cols
             non_ref_value_cols == Without(df.columns, Range(ref_cols))
             excluded == [acc EXCEPT !.column_info.excluded_ref_cols = @ \o ref_cols]
         IN  IF EmptyTable(df) THEN TablesWalk(tables, t + 1, acc)
             ELSE IF non_ref_value_cols = <<>> THEN TablesWalk(tables, t + 1, excluded)
             ELSE TablesWalk(tables, t + 1,
                     [data |-> TableRows(acc.data, df, 1, non_ref_value_cols[1]),
                      column_info |->
                         [excluded.column_info EXCEPT
                             !.value_cols_used = Append(@, non_ref_value_cols[1])]])

\* _parse_tables_to_data
parse_tables_to_data(tables) ==
    LET walked == TablesWalk(tables, 1,
                             [data |-> <<>>,
                              column_info |-> [excluded_ref_cols |-> <<>>,
                                               value_cols_used |-> <<>>]])
    IN  SetKey(walked.data, "_column_info", walked.column_info)

(***************************************************************************)
(* parse_pdf: the extracted data; the notes text is left out.              *)
(***************************************************************************)
\* the inventory of the text is preferred when it comes from the balance sheet
PreferBalanceSheet(merged_data, text_data) ==
    IF /\ "_inventory_source" \in DOMAIN text_data
       /\ text_data._inventory_source[1] = "balance_sheet/current_assets"
       /\ "inventory" \in DOMAIN text_data
    THEN SetKey(SetKey(merged_data, "inventory", text_data.inventory),
                "_inventory_source", text_data._inventory_source)
    ELSE merged_data

\* a negative inventory is cleared
ClearNegative(merged_data) ==
    IF ~IsNone(Get(merged_data, "inventory")) /\ merged_data.inventory[1] < 0
    THEN SetKey(SetKey(merged_data, "inventory", None),
                "_inventory_source", <<"cleared_negative">>)
    ELSE merged_data

\* merged = {**text_data, **table_data}, then the two inventory rules
MergeExtracted(table_data, text_data) ==
    ClearNegative(PreferBalanceSheet(table_data @@ text_data, text_data))

\* parse_pdf
parse_pdf(tables, lines) ==
    MergeExtracted(parse_tables_to_data(tables), parse_text_to_data(lines))

\* extracted, notes = parse_pdf(uploaded_file)
ParsePdf ==
    /\ pc = "pdf_parse"
    /\ parsed' = SetKey(parsed, "pdf", parse_pdf(uploads.tables, uploads.lines))
    /\ pc' = "pdf_parsed"
    /\ UNCHANGED <<given, data, benchmarks, metrics, red_flags, self_checks,
                   has_self_check_fails, has_self_check_warns, uploads, merged>>
    /\ UNCHANGED appVars

NextPdf == ParsePdf

\* either upload path of the application
NextParsers == NextXero \/ ParsePdf

\* the PDF path on the given uploads: [tables, lines]
InitPdf(files) == InitParsers(files) /\ pc = "pdf_parse"

PdfUploads(tables, lines) == [tables |-> tables, lines |-> lines]

(***************************************************************************)
(* Parser inputs.  Each specification names the tables it parses.          *)
(***************************************************************************)
\* the sequences of at most n distinct elements of a set
DistinctSeqs(S, n) ==
    {s \in UNION {[1..k -> S] : k \in 0..n} : \A i, j \in 1..Len(s) : s[i] = s[j] => i = j}

\* A table has at most MaxColumns value columns.
MaxColumns == 3

\* the headers a period column may carry
Headers == DOMAIN YearPatternsOf

\* a P&L whose cell in each column is tied to the column's place in the upload
PeriodTable(columns) ==
    DataFrame(columns,
              <<Row("Total Revenue", [j \in 1..Len(columns) |-> Amount(1000 * j)]),
                Row("Net Profit", [j \in 1..Len(columns) |-> Amount(100 * j)])>>)

\* Period ordering: a P&L with every choice of distinct headers, no other upload
InitPeriods ==
    InitXero({XeroUploads(Some(PeriodTable(columns)), None, None) :
                 columns \in DistinctSeqs(Headers, MaxColumns)})

SpecPeriods == InitPeriods /\ [][NextXero]_vars

\* A table has at most MaxRows rows.
MaxRows == 3

\* the tables of two period columns whose rows are distinct rows of a set
TablesOf(rows) ==
    {DataFrame(<<"FY2024", "FY2023">>, r) : r \in DistinctSeqs(rows, MaxRows)}

\* Revenue and COGS rows: section headers, detail rows and total rows, the
\* total rows with and without a value in each period column
SubtotalRows ==
    {Row("Revenue", <<Blank, Blank>>),
     Row("Consulting Income", <<Amount(1000), Amount(900)>>),
     Row("Sales", <<Amount(500), Dash>>),
     Row("Total Revenue", <<Amount(2850), Amount(2500)>>),
     Row("Total Revenue", <<Blank, Amount(2500)>>),
     Row("Gross Income", <<Amount(2900), Blank>>),
     Row("Purchases", <<Amount(300), Amount(200)>>),
     Row("Closing Stock", <<Paren(50), Paren(40)>>),
     Row("Total Cost of Sales", <<Amount(700), Blank>>)}

\* Subtotal preference: a P&L of revenue and COGS rows, no other upload
InitSubtotal ==
    InitXero({XeroUploads(Some(pl), None, None) : pl \in TablesOf(SubtotalRows)})

SpecSubtotal == InitSubtotal /\ [][NextXero]_vars

\* Interest rows: a label twice (the first time without a current value), a
\* label in another case, a subtotal row, and a row that is no interest row
InterestRows ==
    {Row("Interest Expense", <<Blank, Amount(30)>>),
     Row("Interest Expense", <<Amount(1000), Amount(900)>>),
     Row("INTEREST EXPENSE", <<Amount(70), Amount(60)>>),
     Row("Bank Charges", <<Amount(200), Dash>>),
     Row("Finance Costs", <<Amount(50), Amount(40)>>),
     Row("Total Finance Costs", <<Amount(1250), Blank>>),
     Row("Wages", <<Amount(400), Amount(300)>>)}

\* Component aggregation: a P&L of interest rows, no other upload
InitComponents ==
    InitXero({XeroUploads(Some(pl), None, None) : pl \in TablesOf(InterestRows)})

SpecComponents == InitComponents /\ [][NextXero]_vars

\* the cells of a column standing at place j: amounts, note numbers, small
\* amounts with cents, or nothing; the values tell the places apart
ColumnKinds == {"amounts", "notes", "decimals", "blank"}

ColumnCells(kind, j) ==
    CASE kind = "amounts"  -> <<Amount(5000 + j), Amount(1200 + j), Amount(800 + j),
                                Amount(3000 + j)>>
      [] kind = "notes"    -> <<Amount(4 + j), Amount(10 + j), Blank, Amount(20 + j)>>
      [] kind = "decimals" -> <<Cents(450 + j), Cents(1275 + j), Blank, Amount(3)>>
      [] OTHER             -> <<Blank, Blank, Blank, Blank>>

\* the row labels of a P&L, of a balance sheet and of a cash flow statement
PLLabels == <<"Total Revenue", "Total Cost of Sales", "Interest Expense", "Net Profit">>

BSLabels == <<"Cash at Bank", "Accounts Receivable", "Current Assets", "Total Assets">>

CFLabels == <<"Net Cash from Operating Activities", "Net Cash from Investing Activities",
              "Net Cash from Financing Activities", "Net Profit">>

\* the table with the given row labels, headers and kind of each column
ColumnTable(labels, headers, kinds) ==
    DataFrame(headers,
              [i \in 1..Len(labels) |->
                  Row(labels[i], [j \in 1..Len(headers) |-> ColumnCells(kinds[j], j)[i]])])

\* up to MaxColumns distinct headers with a kind for each column
ColumnChoices ==
    UNION {{<<h, kinds>> : kinds \in [1..Len(h) -> ColumnKinds]} :
              h \in DistinctSeqs({"FY2024", "FY2023", "Notes"}, MaxColumns)}

\* Reference columns: a P&L alone, or a balance sheet with a cash flow statement
InitReference ==
    InitXero({XeroUploads(Some(ColumnTable(PLLabels, c[1], c[2])), None, None) :
                 c \in ColumnChoices}
             \cup {XeroUploads(None, Some(ColumnTable(BSLabels, c[1], c[2])),
                               Some(ColumnTable(CFLabels, c[1], c[2]))) :
                      c \in ColumnChoices})

SpecReference == InitReference /\ [][NextXero]_vars

\* Balance sheet rows around inventory: section headers, inventory rows, the
\* total row of current assets and a cash row
InventoryRows ==
    {Row("Current Assets", <<Blank, Blank>>),
     Row("Non-Current Assets", <<Blank, Blank>>),
     Row("Current Liabilities", <<Blank, Blank>>),
     Row("Non-Current Liabilities", <<Blank, Blank>>),
     Row("Inventory", <<Amount(2200), Amount(2000)>>),
     Row("Stock on Hand", <<Amount(300), Blank>>),
     Row("Cash at Bank", <<Amount(700), Amount(600)>>),
     Row("Total Current Assets", <<Amount(5000), Amount(4500)>>)}

\* a P&L whose cost of sales holds a closing stock line
ClosingStockPL ==
    DataFrame(<<"FY2024", "FY2023">>,
              <<Row("Total Revenue", <<Amount(3000), Amount(2800)>>),
                Row("Closing Stock", <<Paren(500), Paren(400)>>),
                Row("Net Profit", <<Amount(900), Amount(800)>>)>>)

\* Inventory gating: a balance sheet of inventory rows, with or without the P&L
InitInventory ==
    InitXero({XeroUploads(pl, Some(bs), None) :
                 pl \in {None, Some(ClosingStockPL)}, bs \in TablesOf(InventoryRows)})

SpecInventory == InitInventory /\ [][NextXero]_vars

\* Column classification: the same table as a Xero P&L and as a PDF table
InitClassify ==
    /\ InitParsers({XeroUploads(Some(ColumnTable(PLLabels, c[1], c[2])), None, None) :
                       c \in ColumnChoices}
                   \cup {PdfUploads(<<ColumnTable(PLLabels, c[1], c[2])>>, <<>>) :
                            c \in ColumnChoices})
    /\ pc = IF "pl" \in DOMAIN uploads THEN "xero_pl" ELSE "pdf_parse"

SpecClassify == InitClassify /\ [][NextParsers]_vars

\* Lines of a PDF text around inventory: statement titles, section headers,
\* inventory lines in and outside the balance sheet, a total line
InventoryLines ==
    {Line("Profit and Loss", <<>>, FALSE),
     Line("Balance Sheet", <<>>, FALSE),
     Line("Current Assets", <<>>, FALSE),
     Line("Non-Current Assets", <<>>, FALSE),
     Line("Closing Stock", <<Paren(500)>>, FALSE),
     Line("Inventory", <<Amount(2200)>>, FALSE),
     Line("Stock on Hand", <<Minus(300)>>, FALSE),
     Line("Total Current Assets", <<Amount(5000)>>, FALSE)}

\* the tables of a PDF: none, a P&L table with a closing stock row, a balance
\* sheet table with an inventory row
InventoryTables ==
    {<<>>,
     <<DataFrame(<<"2024">>,
                 <<Row("Total Revenue", <<Amount(3000)>>),
                   Row("Closing Stock", <<Amount(500)>>),
                   Row("Net Profit", <<Amount(900)>>)>>)>>,
     <<DataFrame(<<"2024">>,
                 <<Row("Cash at Bank", <<Amount(700)>>),
                   Row("Inventory", <<Amount(2100)>>)>>)>>}

\* PDF inventory: up to MaxRows distinct lines of text with each choice of tables
InitPdfInventory ==
    InitPdf({PdfUploads(t, l) :
                t \in InventoryTables, l \in DistinctSeqs(InventoryLines, MaxRows)})

SpecPdfInventory == InitPdfInventory /\ [][NextPdf]_vars

\* P&L rows around gross profit: total rows of revenue and cost of sales with
\* a value, with 0 and without a value, and a gross profit row
GrossProfitRows ==
    {Row("Total Revenue", <<Amount(3000), Blank>>),
     Row("Total Revenue", <<Amount(0), Amount(2500)>>),
     Row("Total Cost of Sales", <<Amount(700), Amount(0)>>),
     Row("Total Cost of Sales", <<Blank, Amount(600)>>),
     Row("Gross Profit", <<Amount(2250), Blank>>),
     Row("Net Profit", <<Amount(900), Amount(800)>>)}

\* the same rows as lines of a PDF text, with their current amounts
GrossProfitLines ==
    {Line("Total Revenue", <<Amount(3000)>>, FALSE),
     Line("Total Revenue", <<Amount(0)>>, FALSE),
     Line("Total Cost of Sales", <<Amount(700)>>, FALSE),
     Line("Total Cost of Sales", <<Amount(0)>>, FALSE),
     Line("Gross Profit", <<Amount(2250)>>, FALSE),
     Line("Net Profit", <<Amount(900)>>, FALSE)}

\* Gross profit derivation: a Xero P&L of these rows, or a PDF text of these lines
InitGrossProfit ==
    /\ InitParsers({XeroUploads(Some(pl), None, None) : pl \in TablesOf(GrossProfitRows)}
                   \cup {PdfUploads(<<>>, l) :
                            l \in DistinctSeqs(GrossProfitLines, MaxRows)})
    /\ pc = IF "pl" \in DOMAIN uploads THEN "xero_pl" ELSE "pdf_parse"

SpecGrossProfit == InitGrossProfit /\ [][NextParsers]_vars

\* Balance sheet rows around the total of current assets: the section
\* headers, the total row and inventory rows
SectionRows ==
    {Row("Current Assets", <<Blank, Blank>>),
     Row("Non-Current Assets", <<Blank, Blank>>),
     Row("Total Current Assets", <<Amount(5000), Amount(4500)>>),
     Row("Inventory", <<Amount(2200), Amount(2000)>>),
     Row("Stock on Hand", <<Amount(300), Blank>>)}

\* the same rows as lines of a PDF text
SectionLines ==
    {Line("Current Assets", <<>>, FALSE),
     Line("Non-Current Assets", <<>>, FALSE),
     Line("Total Current Assets", <<Amount(5000)>>, FALSE),
     Line("Inventory", <<Amount(2200)>>, FALSE),
     Line("Stock on Hand", <<Amount(300)>>, FALSE)}

\* Section exit: a Xero balance sheet of these rows, or a PDF text whose
\* balance sheet holds these lines
InitSections ==
    /\ InitParsers({XeroUploads(None, Some(bs), None) : bs \in TablesOf(SectionRows)}
                   \cup {PdfUploads(<<>>, <<Line("Balance Sheet", <<>>, FALSE)>> \o l) :
                            l \in DistinctSeqs(SectionLines, MaxRows)})
    /\ pc = IF "bs" \in DOMAIN uploads THEN "xero_pl" ELSE "pdf_parse"

SpecSections == InitSections /\ [][NextParsers]_vars

\* Lines of a PDF text around note numbers: a small integer alone, beside a
\* large amount, beside another small number, with and without a dollar sign,
\* and the values at and around the ends of the 1..50 range
NoteRefLines ==
    {Line("Net Profit", <<Amount(5)>>, FALSE),
     Line("Net Profit", <<Amount(5)>>, TRUE),
     Line("Total Revenue", <<Amount(5), Amount(12000)>>, FALSE),
     Line("Total Revenue", <<Amount(5), Amount(12000)>>, TRUE),
     Line("Interest Expense", <<Amount(7), Amount(120)>>, FALSE),
     Line("Total Cost of Sales", <<Amount(0)>>, FALSE),
     Line("Total Cost of Sales", <<Amount(1)>>, FALSE),
     Line("Depreciation", <<Amount(50)>>, FALSE),
     Line("Depreciation", <<Amount(51)>>, FALSE),
     Line("Wages", <<Cents(550)>>, FALSE),
     Line("Wages", <<Paren(20)>>, FALSE)}

\* Note references: up to MaxRows distinct lines of text, no table
InitNoteRef ==
    InitPdf({PdfUploads(<<>>, l) : l \in DistinctSeqs(NoteRefLines, MaxRows)})

SpecNoteRef == InitNoteRef /\ [][NextPdf]_vars
(***************************************************************************)
(* The application (app.py).  Streamlit runs the script from top to bottom *)
(* on every interaction; an action below is one such run.  The uploads     *)
(* hold whole dollars, for which the parsers' cents and the dollars of the *)
(* analysis are the same amounts in two units.                             *)
(***************************************************************************)
\* a Xero Profit & Loss export of two years, with the given prior revenue
AppProfitLoss(prior_revenue) ==
    DataFrame(<<"FY2024", "FY2023">>,
              <<Row("Total Revenue", <<Amount(4000), prior_revenue>>),
                Row("Total Cost of Sales", <<Amount(1000), Amount(800)>>),
                Row("Gross Profit", <<Amount(3000), Amount(2200)>>),
                Row("Total Operating Expenses", <<Amount(600), Amount(500)>>),
                Row("Interest Expense", <<Amount(100), Amount(100)>>),
                Row("Income Tax Expense", <<Amount(300), Amount(200)>>),
                Row("Net Profit", <<Amount(2000), Amount(1400)>>)>>)

\* a Xero Balance Sheet export whose current year has the given equity
AppBalanceSheet(equity) ==
    DataFrame(<<"FY2024", "FY2023">>,
              <<Row("Total Assets", <<Amount(1000), Amount(900)>>),
                Row("Total Liabilities", <<Amount(600), Amount(500)>>),
                Row("Total Equity", <<Amount(equity), Amount(400)>>)>>)

\* the text of a PDF financial statement whose balance sheet has the given equity
AppPdfLines(equity) ==
    <<Line("Profit and Loss", <<>>, FALSE),
      Line("Total Revenue", <<Amount(4000)>>, FALSE),
      Line("Total Operating Expenses", <<Amount(600)>>, FALSE),
      Line("Balance Sheet", <<>>, FALSE),
      Line("Total Assets", <<Amount(1000)>>, FALSE),
      Line("Total Liabilities", <<Amount(600)>>, FALSE),
      Line("Total Equity", <<Amount(equity)>>, FALSE)>>

\* an uploaded file: readable with the given content, or one its reader rejects
File(content) == [readable |-> TRUE, content |-> content]

Unreadable == [readable |-> FALSE, content |-> <<>>]

\* an Optional amount, in dollars
Dollars(x) == IF IsNone(x) THEN None ELSE Some(x[1] \div Dollar)

\* the amounts of a period record, in dollars: its fields, the components in
\* its lists and the lines of its balance sheet; its texts are kept
InDollars(rec) ==
    [k \in DOMAIN rec |->
        CASE k \in {"_inventory_source", "_inventory_note"} -> rec[k]
          [] k \in {"_dep_components", "_interest_components", "_tax_components"} ->
                [i \in 1..Len(rec[k]) |-> <<rec[k][i][1], rec[k][i][2] \div Dollar>>]
          [] k = "_bs_line_items" ->
                [i \in 1..Len(rec[k]) |-> [rec[k][i] EXCEPT !.value = Dollars(@)]]
          [] k = "_ebit_components" ->
                Some([c \in DOMAIN rec[k][1] |-> rec[k][1][c] \div Dollar])
          [] OTHER -> Dollars(rec[k])]

\* the period records of a parse result, in dollars
DataInDollars(d) == [p \in DOMAIN d |-> InDollars(d[p])]

\* calculate_benchmark_comparisons
calculate_benchmark_comparisons(cur, industry_benchmarks) ==
    LET revenue == Get(cur, "revenue")
        data_key == [cost_of_sales |-> Get(cur, "cogs"),
                     labour |-> Get(cur, "operating_expenses"),
                     rent |-> None, motor_vehicle |-> None]
    IN  IF ~Truthy(revenue) \/ ~NonEmpty(industry_benchmarks) THEN <<>>
        ELSE [bm_key \in DOMAIN data_key \cap DOMAIN industry_benchmarks |->
                [actual_pct |-> IF Truthy(data_key[bm_key])
                                THEN Pct(data_key[bm_key], revenue) ELSE None,
                 benchmark_low |-> industry_benchmarks[bm_key].low,
                 benchmark_high |-> industry_benchmarks[bm_key].high]]

\* the AnalysisResult that run_analysis fills in
AnalysisResult(period_labels, d, all_metrics, flags, comparisons, checks) ==
    [period_labels |-> period_labels,
     raw_data |-> d,
     metrics |-> all_metrics,
     red_flags |-> flags,
     benchmark_comparisons |-> comparisons,
     self_checks |-> checks,
     has_self_check_fails |-> HasFails(checks),
     has_self_check_warns |-> HasWarns(checks)]

\* run_analysis from the red flags on: no result when detect_red_flags raises
FlagsAndChecks(financial_data, d, industry_benchmarks, all_metrics) ==
    [data |-> d,
     result |->
        IF ExpenseRuleRaises(all_metrics) THEN None
        ELSE Some(AnalysisResult(
                financial_data.period_labels, d, all_metrics,
                detect_red_flags(Get(d, "current"), Get(d, "prior"), Get(d, "prior2"),
                                 all_metrics),
                calculate_benchmark_comparisons(Get(d, "current"), industry_benchmarks),
                RunSelfChecksOn(d)))]

\* run_analysis from the metric groups on
MetricsOn(financial_data, d, industry_benchmarks) ==
    FlagsAndChecks(financial_data, d, industry_benchmarks,
                   AllMetrics(Get(d, "current"), Get(d, "prior"), Get(d, "prior2"),
                              industry_benchmarks))

\* run_analysis as one call: the period records as it leaves them (it stores the
\* computed EBIT on the caller's records), and the result, or None when
\* detect_red_flags raised
run_analysis(financial_data, industry_benchmarks) ==
    MetricsOn(financial_data,
              [p \in DOMAIN financial_data.data |-> WithComputedEbit(financial_data.data[p])],
              industry_benchmarks)

\* get_demo_data
get_demo_data ==
    [data |->
        [current |->
            [revenue |-> Some(2850000), cogs |-> Some(1425000),
             gross_profit |-> Some(1425000), operating_expenses |-> Some(1100000),
             ebit |-> Some(325000), depreciation |-> Some(85000), ebitda |-> Some(410000),
             interest_expense |-> Some(42000), tax_expense |-> Some(84900),
             net_profit |-> Some(198100), cash |-> Some(180000),
             accounts_receivable |-> Some(310000), inventory |-> Some(220000),
             _inventory_source |-> Some("balance_sheet/current_assets (demo data)"),
             current_assets |-> Some(755000), non_current_assets |-> Some(890000),
             total_assets |-> Some(1645000), accounts_payable |-> Some(185000),
             current_liabilities |-> Some(380000), non_current_liabilities |-> Some(420000),
             total_liabilities |-> Some(800000), equity |-> Some(845000),
             total_debt |-> Some(560000), operating_cash_flow |-> Some(285000),
             _dep_components |-> <<<<"Depreciation & Amortisation (demo)", 85000>>>>,
             _interest_components |-> <<<<"Interest Expense (demo)", 42000>>>>,
             _tax_components |-> <<<<"Income Tax Expense (demo)", 84900>>>>],
         prior |->
            [revenue |-> Some(2580000), cogs |-> Some(1264200),
             gross_profit |-> Some(1315800), operating_expenses |-> Some(1040000),
             ebit |-> Some(275800), depreciation |-> Some(80000), ebitda |-> Some(355800),
             interest_expense |-> Some(45000), tax_expense |-> Some(69240),
             net_profit |-> Some(161560), cash |-> Some(145000),
             accounts_receivable |-> Some(265000), inventory |-> Some(195000),
             _inventory_source |-> Some("balance_sheet/current_assets (demo data)"),
             current_assets |-> Some(650000), non_current_assets |-> Some(940000),
             total_assets |-> Some(1590000), accounts_payable |-> Some(160000),
             current_liabilities |-> Some(335000), non_current_liabilities |-> Some(480000),
             total_liabilities |-> Some(815000), equity |-> Some(775000),
             total_debt |-> Some(610000), operating_cash_flow |-> Some(252000),
             _dep_components |-> <<<<"Depreciation & Amortisation (demo)", 80000>>>>,
             _interest_components |-> <<<<"Interest Expense (demo)", 45000>>>>,
             _tax_components |-> <<<<"Income Tax Expense (demo)", 69240>>>>]],
     period_labels |-> <<"FY2024", "FY2023">>,
     client_name |-> "Demo Trading Pty Ltd",
     industry |-> "Wholesale trade",
     abn |-> "12 345 678 901",
     financial_year_end |-> "30 June 2024",
     reference_columns |-> {}]

\* the industries of the sidebar's select box: one the benchmark file lists, one
\* it does not
Industries == {"Wholesale trade", "Mining"}

\* load_benchmarks()["industries"]: a file without an "Other" entry
BenchmarkIndustries == [i \in {"Wholesale trade"} |-> IndustryBenchmarks]

\* get_industry_benchmarks: industries.get(industry, industries.get("Other", {}))
get_industry_benchmarks(industry) ==
    IF industry \in DOMAIN BenchmarkIndustries THEN BenchmarkIndustries[industry]
    ELSE IF "Other" \in DOMAIN BenchmarkIndustries THEN BenchmarkIndustries["Other"]
    ELSE NoBenchmarks

\* ALL_FIELDS: the fields of the confirmation form
ALL_FIELDS ==
    {"revenue", "cogs", "gross_profit", "operating_expenses", "depreciation", "ebit",
     "ebitda", "interest_expense", "tax_expense", "net_profit",
     "cash", "accounts_receivable", "inventory", "current_assets", "non_current_assets",
     "total_assets", "accounts_payable", "current_liabilities",
     "non_current_liabilities", "total_liabilities", "equity", "total_debt",
     "operating_cash_flow", "investing_cash_flow", "financing_cash_flow"}

\* f"{default_val:.0f}" if default_val is not None else "": the text of an amount
\* rounded to whole dollars, halves to the even dollar
FormatWhole(default_val) ==
    IF IsNone(default_val) THEN Blank
    ELSE LET cents == Abs(default_val[1])
             q == cents \div Dollar
             r == cents % Dollar
             rounded == IF 2 * r > Dollar \/ (2 * r = Dollar /\ q % 2 = 1) THEN q + 1 ELSE q
         IN  IF default_val[1] < 0 THEN Minus(rounded) ELSE Amount(rounded)

\* get_confirmation_template and the form built from it: the text each input of
\* the current year starts with
get_confirmation_template(extracted_data) ==
    [field \in ALL_FIELDS |-> FormatWhole(Get(extracted_data, field))]

\* the prior year's inputs start empty
EmptyForm == [field \in ALL_FIELDS |-> Blank]

\* the form after the user has typed the given texts over some of its inputs
Typed(form, texts) == [field \in DOMAIN form |->
                          IF field \in DOMAIN texts THEN texts[field] ELSE form[field]]

\* build_confirmed_data: every text cleaned to an amount
CleanedFields(confirmed_values) ==
    [field \in DOMAIN confirmed_values |-> pdf_clean_amount(confirmed_values[field])]

\* build_confirmed_data: a confirmed inventory is tagged as the balance sheet's
ConfirmInventory(result) ==
    IF ~IsNone(Get(result, "inventory"))
    THEN SetKey(result, "_inventory_source",
                <<"balance_sheet/current_assets (user confirmed)">>)
    ELSE result

\* build_confirmed_data: gross profit from a truthy revenue and a truthy cogs
ConfirmGrossProfit(result) ==
    IF IsNone(Get(result, "gross_profit")) /\ Truthy(Get(result, "revenue"))
       /\ Truthy(Get(result, "cogs"))
    THEN SetKey(result, "gross_profit", Some(result.revenue[1] - result.cogs[1]))
    ELSE result

\* build_confirmed_data: EBIT always from its components when there is a net profit
ConfirmEbit(result) ==
    IF ~IsNone(Get(result, "net_profit"))
    THEN LET tax == OrZero(Get(result, "tax_expense"))
             interest == OrZero(Get(result, "interest_expense"))
         IN  SetKey(SetKey(result, "ebit", Some(result.net_profit[1] + tax + interest)),
                    "_ebit_components",
                    Some([net_profit |-> result.net_profit[1],
                          interest_expense |-> interest, tax_expense |-> tax]))
    ELSE result

\* build_confirmed_data: EBITDA from the EBIT
ConfirmEbitda(result) ==
    IF ~IsNone(Get(result, "ebit"))
    THEN SetKey(result, "ebitda",
                Some(result.ebit[1] + OrZero(Get(result, "depreciation"))))
    ELSE result

build_confirmed_data(confirmed_values) ==
    ConfirmEbitda(ConfirmEbit(ConfirmGrossProfit(ConfirmInventory(
        CleanedFields(confirmed_values)))))

\* has_prior = any(v is not None and v != 0 for v in pri_data.values())
HasPrior(pri_data) ==
    \E k \in DOMAIN pri_data :
        k \in {"_inventory_source", "_ebit_components"} \/ Truthy(pri_data[k])

\* the files the user may have in the Xero uploaders when Run Analysis is pressed
AppXeroUploads ==
    {XeroUploads(None, None, None),
     XeroUploads(Some(Unreadable), None, None),
     XeroUploads(Some(File(AppProfitLoss(Amount(3000)))), None, None),
     XeroUploads(Some(File(AppProfitLoss(Amount(3000)))),
                 Some(File(AppBalanceSheet(400))), None),
     XeroUploads(Some(File(AppProfitLoss(Amount(3000)))),
                 Some(File(AppBalanceSheet(300))), None),
     XeroUploads(Some(File(AppProfitLoss(Amount(0)))), Some(File(AppBalanceSheet(400))), None)}

\* the file the user may have in the PDF uploader: None, or a PDF
AppPdfUploads ==
    {None, Some(Unreadable),
     Some(File(PdfUploads(<<>>, AppPdfLines(400)))),
     Some(File(PdfUploads(<<>>, AppPdfLines(300))))}

\* what the user may type over the inputs of the current year
AppCurrentTexts == {<<>>, [equity |-> Amount(400)], [equity |-> Amount(250)]}

\* what the user may type into the inputs of the prior year
AppPriorTexts == {<<>>, [operating_expenses |-> Amount(500)],
                  [revenue |-> Amount(3000), equity |-> Amount(400)]}

\* the commentary: "" or a text, of which the model keeps the result whose
\* figures its prompt was built from and whether the user has edited it
NoCommentary == <<>>

Commentary(result, edited) == <<[generated_from |-> result, edited |-> edited]>>

\* _init_state: the defaults of st.session_state, without the settings of the
\* sidebar (firm name, Ollama model and status, debug mode)
InitState ==
    [analysis_result |-> None, financial_data |-> None, commentary |-> NoCommentary,
     pdf_extracted |-> None, pdf_confirmed |-> FALSE, pdf_confirmed_data |-> None,
     data_source |-> None,
     self_check_override |-> FALSE, parsing_metadata |-> <<>>, session_info |-> <<>>]

\* what a script run shows below the sidebar: the confirmation form, the tabs
\* (overview, the metric tabs, commentary, export), and the checkbox of
\* _render_fail_override_checkbox, which no line of the script calls
Page(confirmation_form, tabs) ==
    [confirmation_form |-> confirmation_form, tabs |-> tabs,
     fail_override_checkbox |-> FALSE]

\* the condition of the PDF confirmation step
ConfirmationStep(s) ==
    s.data_source = Some("pdf") /\ ~IsNone(s.pdf_extracted) /\ ~s.pdf_confirmed

\* a script run that reaches its end: the confirmation step, then the main content
MainContent(s) == Page(ConfirmationStep(s), ~IsNone(s.analysis_result))

\* the top of every script run: session_info from the sidebar's widgets
Sidebar(s, industry) == [s EXCEPT !.session_info = [industry |-> industry]]

\* a Run Analysis handler that resets the result and the override only
Mutant_Pressed(s) ==
    [s EXCEPT !.analysis_result = None, !.self_check_override = FALSE]

\* the first four lines of the Run Analysis handler
Pressed(s) ==
    [s EXCEPT !.analysis_result = None, !.commentary = NoCommentary,
              !.pdf_confirmed = FALSE, !.self_check_override = FALSE]

\* parsing_metadata
ParsingMetadata(reference_columns, inventory_source, source) ==
    [reference_columns |-> reference_columns, inventory_source |-> inventory_source,
     data_source |-> source]

\* the session state after a call of run_analysis in a handler: financial_data
\* holds the records as run_analysis left them; the result, the data source,
\* the confirmation and the metadata are stored only when it returned
AfterAnalysis(s, financial_data, run, source, confirmed, metadata) ==
    IF IsNone(run.result)
    THEN [s EXCEPT !.financial_data = Some([financial_data EXCEPT !.data = run.data])]
    ELSE [s EXCEPT !.financial_data = Some([financial_data EXCEPT !.data = run.data]),
                   !.analysis_result = run.result,
                   !.data_source = Some(source),
                   !.pdf_confirmed = confirmed,
                   !.parsing_metadata =
                       ParsingMetadata(metadata,
                                       Get(Get(run.data, "current"), "_inventory_source"),
                                       source)]

\* the Demo branch: session_info takes the demo's entries before run_analysis
\* is called, which is not guarded there
DemoBranch(s, industry) ==
    AfterAnalysis([s EXCEPT !.session_info = [industry |-> get_demo_data.industry]],
                  get_demo_data,
                  run_analysis(get_demo_data, get_industry_benchmarks(industry)),
                  "demo", FALSE, get_demo_data.reference_columns)

\* Run Analysis in Demo Mode; an exception of run_analysis ends the script run
RunAnalysisDemo ==
    /\ pc = "app"
    /\ \E industry \in Industries :
          session_state' = DemoBranch(Pressed(Sidebar(session_state, industry)), industry)
    /\ page' = IF IsNone(session_state'.analysis_result) THEN Page(FALSE, FALSE)
               ELSE MainContent(session_state')
    /\ UNCHANGED <<given, data, benchmarks, metrics, red_flags, self_checks,
                   has_self_check_fails, has_self_check_warns, uploads, parsed, merged, pc>>

\* merged, with period_labels cut to two, as the Xero branch hands it to run_analysis
MergedForAnalysis(merged_data) ==
    [data |-> DataInDollars(merged_data.data),
     period_labels |-> Prefix(merged_data.period_labels, 2),
     reference_columns |-> merged_data.reference_columns]

\* the try block of the Xero branch up to the call of run_analysis
XeroMerged(files) ==
    MergedForAnalysis(merge_financial_data(
        IF IsNone(files.pl) THEN NotUploaded ELSE parse_xero_pl(files.pl[1].content),
        IF IsNone(files.bs) THEN NotUploaded
        ELSE parse_xero_balance_sheet(files.bs[1].content),
        IF IsNone(files.cf) THEN None ELSE parse_xero_cashflow(files.cf[1].content)))

\* the try block of the Xero branch from the call of run_analysis on
XeroAnalysis(s, merged_data, industry) ==
    AfterAnalysis(s, merged_data,
                  run_analysis(merged_data, get_industry_benchmarks(industry)),
                  "xero", FALSE, merged_data.reference_columns)

\* the Xero branch: without a P&L and a balance sheet nothing is parsed; every
\* exception of the try block is caught and reported, _read_file's included
XeroBranch(s, files, industry) ==
    IF IsNone(files.pl) /\ IsNone(files.bs) THEN s
    ELSE IF \E f \in {files.pl, files.bs, files.cf} : ~IsNone(f) /\ ~f[1].readable THEN s
    ELSE XeroAnalysis(s, XeroMerged(files), industry)

\* Run Analysis with the Xero uploaders
RunAnalysisXero ==
    /\ pc = "app"
    /\ \E industry \in Industries, files \in AppXeroUploads :
          session_state' = XeroBranch(Pressed(Sidebar(session_state, industry)),
                                      files, industry)
    /\ page' = MainContent(session_state')
    /\ UNCHANGED <<given, data, benchmarks, metrics, red_flags, self_checks,
                   has_self_check_fails, has_self_check_warns, uploads, parsed, merged, pc>>

\* parse_pdf on the uploaded file: a failing extraction is caught inside and
\* leaves its half of the data empty
ExtractPdf(file) ==
    IF file.readable THEN parse_pdf(file.content.tables, file.content.lines)
    ELSE MergeExtracted(<<>>, <<>>)

\* the PDF branch: the figures are extracted, not analysed
PdfBranch(s, file) ==
    IF IsNone(file) THEN s
    ELSE [s EXCEPT !.pdf_extracted = Some(ExtractPdf(file[1])),
                   !.data_source = Some("pdf")]

\* Run Analysis with the PDF uploader
RunAnalysisPdf ==
    /\ pc = "app"
    /\ \E industry \in Industries, file \in AppPdfUploads :
          session_state' = PdfBranch(Pressed(Sidebar(session_state, industry)), file)
    /\ page' = MainContent(session_state')
    /\ UNCHANGED <<given, data, benchmarks, metrics, red_flags, self_checks,
                   has_self_check_fails, has_self_check_warns, uploads, parsed, merged, pc>>

\* the financial year end typed in the sidebar
fy_end == "30 June 2024"

\* "prior": pri_data if has_prior else None
PriorIfAny(pri_data) == IF HasPrior(pri_data) THEN InDollars(pri_data) ELSE NoRecord

\* financial_data as the submit handler builds it from the two halves of the form
ConfirmedData(confirmed, prior_confirmed) ==
    [data |-> [current |-> InDollars(build_confirmed_data(confirmed)),
               prior |-> PriorIfAny(build_confirmed_data(prior_confirmed))],
     period_labels |-> <<fy_end, "Prior Year">>]

\* the submit handler from the call of run_analysis on, which is not guarded there
SubmitAnalysis(s, financial_data, industry) ==
    AfterAnalysis(s, financial_data,
                  run_analysis(financial_data, get_industry_benchmarks(industry)),
                  "pdf", TRUE, {})

\* the submit handler of the confirmation form, on the texts typed over the
\* form's inputs
SubmitBranch(s, texts, prior_texts, industry) ==
    SubmitAnalysis(s,
                   ConfirmedData(Typed(get_confirmation_template(s.pdf_extracted[1]), texts),
                                 Typed(EmptyForm, prior_texts)),
                   industry)

\* Confirm & Run Analysis on the confirmation form: st.rerun() runs the script
\* again after a success, an exception of run_analysis ends the run below the form
SubmitConfirmation ==
    /\ pc = "app"
    /\ page.confirmation_form
    /\ ConfirmationStep(session_state)
    /\ \E industry \in Industries, texts \in AppCurrentTexts, prior_texts \in AppPriorTexts :
          session_state' = SubmitBranch(Sidebar(session_state, industry),
                                        texts, prior_texts, industry)
    /\ page' = IF session_state'.pdf_confirmed THEN MainContent(session_state')
               ELSE Page(TRUE, FALSE)
    /\ UNCHANGED <<given, data, benchmarks, metrics, red_flags, self_checks,
                   has_self_check_fails, has_self_check_warns, uploads, parsed, merged, pc>>

\* the commentary tab after Generate AI Commentary: a failing generation is
\* caught and leaves the commentary as it was
Generated(s, generated) ==
    IF generated THEN [s EXCEPT !.commentary = Commentary(s.analysis_result[1], FALSE)]
    ELSE s

\* Generate AI Commentary in the commentary tab
GenerateCommentary ==
    /\ pc = "app"
    /\ page.tabs
    /\ ~IsNone(session_state.analysis_result)
    /\ \E industry \in Industries, generated \in BOOLEAN :
          session_state' = Generated(Sidebar(session_state, industry), generated)
    /\ page' = MainContent(session_state')
    /\ UNCHANGED <<given, data, benchmarks, metrics, red_flags, self_checks,
                   has_self_check_fails, has_self_check_warns, uploads, parsed, merged, pc>>

\* the commentary after an edit in its text area, which may leave no text at all
EditedCommentary(s, emptied) ==
    [s EXCEPT !.commentary = IF emptied THEN NoCommentary
                             ELSE Commentary(s.commentary[1].generated_from, TRUE)]

\* an edit of the commentary in the commentary tab
EditCommentary ==
    /\ pc = "app"
    /\ page.tabs
    /\ ~IsNone(session_state.analysis_result)
    /\ session_state.commentary # NoCommentary
    /\ \E industry \in Industries, emptied \in BOOLEAN :
          session_state' = EditedCommentary(Sidebar(session_state, industry), emptied)
    /\ page' = MainContent(session_state')
    /\ UNCHANGED <<given, data, benchmarks, metrics, red_flags, self_checks,
                   has_self_check_fails, has_self_check_warns, uploads, parsed, merged, pc>>

\* any other interaction: the script runs with no button pressed
OtherInteraction ==
    /\ pc = "app"
    /\ \E industry \in Industries : session_state' = Sidebar(session_state, industry)
    /\ page' = MainContent(session_state')
    /\ UNCHANGED <<given, data, benchmarks, metrics, red_flags, self_checks,
                   has_self_check_fails, has_self_check_warns, uploads, parsed, merged, pc>>

NextApp ==
    \/ RunAnalysisDemo
    \/ RunAnalysisXero
    \/ RunAnalysisPdf
    \/ SubmitConfirmation
    \/ GenerateCommentary
    \/ EditCommentary
    \/ OtherInteraction

\* the first script run of a session
InitApp ==
    /\ pc = "app"
    /\ \E industry \in Industries : session_state = Sidebar(InitState, industry)
    /\ page = MainContent(session_state)
    /\ uploads = <<>>
    /\ parsed = <<>>
    /\ merged = <<>>
    /\ given = <<>>
    /\ data = <<>>
    /\ benchmarks = <<>>
    /\ metrics = <<>>
    /\ red_flags = <<>>
    /\ self_checks = <<>>
    /\ has_self_check_fails = FALSE
    /\ has_self_check_warns = FALSE

SpecApp == InitApp /\ [][NextApp]_vars

(***************************************************************************)
(* Properties.                                                             *)
(***************************************************************************)
\* net_profit + (tax_expense or 0) + (interest_expense or 0), None without net_profit
ComponentEbit(rec) ==
    IF IsNone(Get(rec, "net_profit")) THEN None
    ELSE Some(Get(rec, "net_profit")[1] + OrZero(Get(rec, "tax_expense"))
              + OrZero(Get(rec, "interest_expense")))

\* component EBIT + (depreciation or 0)
ComponentEbitda(rec) ==
    IF IsNone(ComponentEbit(rec)) THEN None
    ELSE Some(ComponentEbit(rec)[1] + OrZero(Get(rec, "depreciation")))

\* the results of one check in a list of self-checks
ResultsOf(checks, name) == {i \in 1..Len(checks) : checks[i].check_name = name}

\* C1: after run_analysis, every EBIT value a period record with a net_profit
\* exposes (its `ebit` field and `_ebit_computed`) is net_profit + tax + interest.
C1_EveryEbitIsComponentDerived ==
    pc = "done" =>
        \A p \in Periods :
            ~IsNone(Get(data[p], "net_profit")) =>
                /\ Get(data[p], "_ebit_computed") = ComponentEbit(data[p])
                /\ Get(data[p], "ebit") = ComponentEbit(data[p])

\* C2: ebit_margin, ebitda_margin and interest_coverage of every period are
\* computed from the component-derived EBIT / EBITDA only, also when that EBIT
\* is 0 and when net_profit is null (the metric is then null).
C2_EbitMetricsUseComponentsOnly ==
    pc \in {"flags", "checks", "done"} =>
        \A p \in Periods :
            /\ metrics["ebit_margin"][p] = Pct(ComponentEbit(data[p]), Get(data[p], "revenue"))
            /\ metrics["ebitda_margin"][p]
                 = Pct(ComponentEbitda(data[p]), Get(data[p], "revenue"))
            /\ metrics["interest_coverage"][p]
                 = SafeDiv(ComponentEbit(data[p]), Get(data[p], "interest_expense"))

\* C3: every metric of the result whose current value is null has status grey.
C3_NullMetricIsGrey ==
    pc = "done" =>
        \A m \in DOMAIN metrics : IsNone(metrics[m].current) => metrics[m].status = "grey"

\* the inputs C4 lists for each check
C4_ListedInputs(name) ==
    CASE name = "P&L Balance" ->
            {<<"current", f>> : f \in {"revenue", "cogs", "operating_expenses",
                                        "interest_expense", "tax_expense", "net_profit"}}
      [] name = "Current Assets Subtotal" ->
            {<<"current", f>> : f \in {"cash", "accounts_receivable", "inventory",
                                        "current_assets"}}
      [] name = "Balance Sheet Equation" ->
            {<<"current", f>> : f \in {"total_assets", "total_liabilities", "equity"}}
      [] name = "Equity Movement" ->
            {<<"prior", "equity">>, <<"current", "equity">>, <<"current", "net_profit">>}
      [] OTHER -> {}

\* the inputs the code requires for each check
C4_RequiredInputs(name) ==
    CASE name = "P&L Balance" ->
            {<<"current", f>> : f \in {"revenue", "cogs", "operating_expenses", "net_profit"}}
      [] name = "Current Assets Subtotal" -> {<<"current", "current_assets">>}
      [] OTHER -> C4_ListedInputs(name)

SomeInputNull(d, inputs) == \E s \in inputs : IsNone(Get(d[s[1]], s[2]))

\* C4 as stated: no result is pass or fail when any input its formula lists is null.
C4_NoVerdictOnAnyNullInput ==
    pc = "done" =>
        \A i \in 1..Len(self_checks) :
            SomeInputNull(data, C4_ListedInputs(self_checks[i].check_name))
                => self_checks[i].status = "warn"

\* C4 amended: no result is pass or fail when a required input is null, where a
\* null interest_expense or tax_expense (P&L Balance) and a null cash,
\* accounts_receivable or inventory (Current Assets Subtotal) count as 0 and are
\* not required; a result reported with a required input missing is warn.
C4_NoVerdictOnNullRequiredInput ==
    pc = "done" =>
        \A i \in 1..Len(self_checks) :
            SomeInputNull(data, C4_RequiredInputs(self_checks[i].check_name))
                => self_checks[i].status = "warn" /\ ~self_checks[i].evaluated

\* C4 witness: a check with a required input missing has been reported
C4_Witness ==
    /\ pc = "done"
    /\ IsNone(Get(data["current"], "equity"))
    /\ \E i \in 1..Len(self_checks) :
          self_checks[i].check_name = "Balance Sheet Equation" /\ self_checks[i].status = "warn"
    /\ \E i \in 1..Len(self_checks) :
          self_checks[i].check_name = "Equity Movement" /\ self_checks[i].status = "warn"

\* C5: exactly one result for each current-period check, and with a non-empty
\* prior record exactly one each for Equity Movement and Revenue Reasonableness.
C5_EveryCheckReportedOnce ==
    pc = "done" =>
        /\ \A name \in {"P&L Balance", "Gross Profit Check", "Balance Sheet Equation",
                        "Current Assets Subtotal"} :
              Cardinality(ResultsOf(self_checks, name)) = 1
        /\ NonEmpty(data["prior"]) =>
              \A name \in {"Equity Movement", "Revenue Reasonableness"} :
                  Cardinality(ResultsOf(self_checks, name)) = 1

\* C6: has_self_check_fails holds iff some self-check is fail, and
\* has_self_check_warns iff some self-check is warn.
C6_FlagsMatchSelfChecks ==
    pc = "done" =>
        /\ has_self_check_fails <=> (\E i \in 1..Len(self_checks) : self_checks[i].status = "fail")
        /\ has_self_check_warns <=> (\E i \in 1..Len(self_checks) : self_checks[i].status = "warn")

\* C6 witness: a result with a failed check and no warning
C6_Witness ==
    /\ pc = "done"
    /\ has_self_check_fails
    /\ ~has_self_check_warns

\* |total_assets - (total_liabilities + equity)| of a record with all three
BalanceDiff(rec) ==
    Abs(Get(rec, "total_assets")[1]
        - (Get(rec, "total_liabilities")[1] + Get(rec, "equity")[1]))

\* C7: Balance Sheet Equation, all three inputs present: pass iff diff <= 1,
\* warn iff 1 < diff <= 0.5% of total_assets, fail otherwise.
C7_BalanceSheetBands ==
    (pc = "done" /\ ~SomeInputNull(data, C4_ListedInputs("Balance Sheet Equation"))) =>
        LET diff == BalanceDiff(data["current"])
            ta   == Get(data["current"], "total_assets")[1]
        IN  /\ Cardinality(ResultsOf(self_checks, "Balance Sheet Equation")) = 1
            /\ \A i \in ResultsOf(self_checks, "Balance Sheet Equation") :
                  /\ self_checks[i].status = "pass" <=> diff <= 1
                  /\ self_checks[i].status = "warn" <=> (1 < diff /\ 1000 * diff <= 5 * ta)
                  /\ self_checks[i].status = "fail" <=> (1 < diff /\ 1000 * diff > 5 * ta)

\* C7 witness: a difference of 5 on assets of 1000 is reported as warn
C7_Witness ==
    /\ pc = "done"
    /\ ~SomeInputNull(data, C4_ListedInputs("Balance Sheet Equation"))
    /\ Get(data["current"], "total_assets") = Some(1000)
    /\ BalanceDiff(data["current"]) = 5
    /\ \E i \in ResultsOf(self_checks, "Balance Sheet Equation") : self_checks[i].status = "warn"

\* |(revenue - cogs - operating_expenses - interest - tax) - net_profit|
ProfitLossDiff(rec) ==
    Abs((Get(rec, "revenue")[1] - Get(rec, "cogs")[1] - Get(rec, "operating_expenses")[1]
         - OrZero(Get(rec, "interest_expense")) - OrZero(Get(rec, "tax_expense")))
        - Get(rec, "net_profit")[1])

ProfitLossEvaluable(rec) ==
    \A f \in {"revenue", "cogs", "operating_expenses", "net_profit"} : ~IsNone(Get(rec, f))

\* the status bands of C8 on a record that can be evaluated
C8_Bands ==
    (pc = "done" /\ ProfitLossEvaluable(data["current"])) =>
        LET diff == ProfitLossDiff(data["current"])
            np   == Abs(Get(data["current"], "net_profit")[1])
        IN  /\ Cardinality(ResultsOf(self_checks, "P&L Balance")) = 1
            /\ \A i \in ResultsOf(self_checks, "P&L Balance") :
                  /\ self_checks[i].status = "pass" <=> diff <= 1
                  /\ self_checks[i].status = "warn" <=> (1 < diff /\ 1000 * diff <= np)
                  /\ self_checks[i].status = "fail" <=> (1 < diff /\ 1000 * diff > np)

\* C8: P&L Balance, revenue, cogs, operating_expenses and net_profit present:
\* pass iff diff <= 1, warn iff 1 < diff <= max(1, 0.1% of |net_profit|), fail
\* otherwise; and the check leaves every field of every record as it was.
C8_ProfitLossBandsNoCorrection ==
    /\ []C8_Bands
    /\ [][pc = "checks" => data' = data]_vars

\* C8 witness: a difference of 2 on a net profit of 2002 is reported as warn
C8_Witness ==
    /\ pc = "done"
    /\ ProfitLossEvaluable(data["current"])
    /\ ProfitLossDiff(data["current"]) = 2
    /\ \E i \in ResultsOf(self_checks, "P&L Balance") : self_checks[i].status = "warn"

GrossProfitEvaluable(rec) ==
    \A f \in {"revenue", "cogs", "gross_profit"} : ~IsNone(Get(rec, f))

\* C9: a fail comes only from P&L Balance, Gross Profit Check or Balance Sheet
\* Equation (never from Equity Movement, Current Assets Subtotal or Revenue
\* Reasonableness), and an evaluated Gross Profit Check is pass iff
\* |gross_profit - (revenue - cogs)| <= 1 and fail otherwise.
C9_FailOnlyFromThreeChecks ==
    pc = "done" =>
        /\ \A i \in 1..Len(self_checks) :
              self_checks[i].status = "fail" =>
                  self_checks[i].check_name
                      \in {"P&L Balance", "Gross Profit Check", "Balance Sheet Equation"}
        /\ GrossProfitEvaluable(data["current"]) =>
              LET rec  == data["current"]
                  diff == Abs(Get(rec, "gross_profit")[1]
                              - (Get(rec, "revenue")[1] - Get(rec, "cogs")[1]))
              IN  /\ Cardinality(ResultsOf(self_checks, "Gross Profit Check")) = 1
                  /\ \A i \in ResultsOf(self_checks, "Gross Profit Check") :
                        self_checks[i].status = IF diff <= 1 THEN "pass" ELSE "fail"

\* C9 witness: an equity movement and a current-assets excess reported as warn
\* next to a failed gross profit check
C9_Witness ==
    /\ pc = "done"
    /\ \E i \in ResultsOf(self_checks, "Equity Movement") :
          self_checks[i].evaluated /\ self_checks[i].status = "warn"
    /\ \E i \in ResultsOf(self_checks, "Current Assets Subtotal") :
          self_checks[i].status = "warn"
    /\ \E i \in ResultsOf(self_checks, "Gross Profit Check") : self_checks[i].status = "fail"

\* C10: with the inventory source not_found or absent, the Quick Ratio's current
\* value is the Current Ratio's current value and the Quick Ratio carries a note.
C10_QuickRatioEqualsCurrentRatio ==
    (pc \in {"flags", "checks", "done"} /\ InventoryNotIdentified(data["current"])) =>
        /\ metrics["quick_ratio"].current = metrics["current_ratio"].current
        /\ metrics["quick_ratio"].notes # ""

\* C11: with the current record's inventory source not_found, empty or absent,
\* inventory_days has a null current value and status grey whatever inventory
\* and COGS are; with a balance-sheet source, a non-null inventory_days value
\* (0 included) is green up to 45 days, amber up to 90 and red above.
C11_InventoryDaysStatus ==
    pc \in {"flags", "checks", "done"} =>
        LET m == metrics["inventory_days"]
        IN  /\ InventoryNotIdentified(data["current"]) =>
                  IsNone(m.current) /\ m.status = "grey"
            /\ (~InventoryNotIdentified(data["current"]) /\ ~IsNone(m.current)) =>
                  m.status = (IF RatLe(m.current, RatInt(45)) THEN "green"
                              ELSE IF RatLe(m.current, RatInt(90)) THEN "amber"
                              ELSE "red")

\* the flags of a list of red flags
Raised(flags) == {flags[i] : i \in 1..Len(flags)}

\* every listed field is non-null in both the current and the prior record
BothPeriodsHave(fields) ==
    \A f \in fields : ~IsNone(Get(data["current"], f)) /\ ~IsNone(Get(data["prior"], f))

\* C19: the AR/revenue flag is raised only when current and prior revenue and
\* accounts_receivable are non-null, the inventory/COGS flag only when current
\* and prior cogs and inventory are non-null, the cash-flow flag only when
\* current and prior revenue and operating_cash_flow are non-null.
C19_PriorRulesNeedAllInputs ==
    pc \in {"checks", "done"} =>
        /\ "receivables" \in Raised(red_flags) =>
              BothPeriodsHave({"revenue", "accounts_receivable"})
        /\ "inventory" \in Raised(red_flags) => BothPeriodsHave({"cogs", "inventory"})
        /\ "cash_flow" \in Raised(red_flags) =>
              BothPeriodsHave({"revenue", "operating_cash_flow"})

\* C20: run_analysis never ends in an error raised by detect_red_flags, and
\* the expense-growth flag is not raised when exactly one of expense_growth
\* and revenue_growth is null.
C20_RedFlagsNeverRaise ==
    /\ pc # "error"
    /\ (pc \in {"checks", "done"} /\ "expense_growth" \in Raised(red_flags)) =>
          /\ ~IsNone(metrics["expense_growth"].current)
          /\ ~IsNone(metrics["revenue_growth"].current)

\* the value columns of the uploaded P&L and of parse_xero_pl's sorted table
UploadedColumns == uploads.pl[1].columns

SortedColumns == parsed.pl.raw_df.columns

HasYear(col) == ~IsNone(extract_year_from_col(col))

HasRelativeTerm(col) == \E i \in 1..Len(RELATIVE_PRIORITY) : Contains(col, RELATIVE_PRIORITY[i][1])

\* C18: the sorted columns are a permutation of the uploaded value columns;
\* when some header yields a year, every column with a year precedes every
\* column without one, the years are in non-increasing order and the fallback
\* flag is set exactly when some column has no year; when no header yields a
\* year or a relative term, the order is kept and the flag is set.
C18_PeriodOrdering ==
    "pl" \in DOMAIN parsed =>
        /\ Len(SortedColumns) = Len(UploadedColumns)
        /\ Range(SortedColumns) = Range(UploadedColumns)
        /\ (\E c \in Range(UploadedColumns) : HasYear(c)) =>
              /\ \A i, j \in 1..Len(SortedColumns) :
                    (HasYear(SortedColumns[i]) /\ ~HasYear(SortedColumns[j])) => i < j
              /\ \A i, j \in 1..Len(SortedColumns) :
                    (i < j /\ HasYear(SortedColumns[i]) /\ HasYear(SortedColumns[j])) =>
                        extract_year_from_col(SortedColumns[i])[1]
                            >= extract_year_from_col(SortedColumns[j])[1]
              /\ parsed.pl.period_fallback_warning
                    = (\E c \in Range(UploadedColumns) : ~HasYear(c))
        /\ (/\ UploadedColumns # <<>>
            /\ \A c \in Range(UploadedColumns) : ~HasYear(c) /\ ~HasRelativeTerm(c)) =>
              /\ SortedColumns = UploadedColumns
              /\ parsed.pl.period_fallback_warning

\* the column the values of a period are read from: the i-th sorted column
\* outside the reference columns (current 0, prior 1, prior2 2)
PeriodIndex == [current |-> 0, prior |-> 1, prior2 |-> 2]

PeriodColumns(result) == Without(result.raw_df.columns, result.reference_columns)

\* the values, in the column of period p, of the rows whose label matches keywords
TotalRowValues(result, p, keywords) ==
    LET cols == PeriodColumns(result)
        df   == result.raw_df
    IN  IF PeriodIndex[p] >= Len(cols) THEN {}
        ELSE {ValueAt(df, i, cols[PeriodIndex[p] + 1]) : i \in
                 {i \in 1..Len(df.rows) :
                     /\ matches_keywords(df.rows[i].label, keywords)
                     /\ ~IsNone(ValueAt(df, i, cols[PeriodIndex[p] + 1]))}}

\* C14: whenever the P&L has a row matching the explicit total keywords of
\* revenue (of COGS) with a non-null value in the period's column, the revenue
\* (the COGS) of that period is the value of such a total row, wherever the
\* detail rows stand.
C14_SubtotalPreference ==
    "pl" \in DOMAIN parsed =>
        \A p \in {"current", "prior"} :
            /\ TotalRowValues(parsed.pl, p, REVENUE_TOTAL_KEYWORDS) # {} =>
                  parsed.pl[p].revenue \in TotalRowValues(parsed.pl, p, REVENUE_TOTAL_KEYWORDS)
            /\ TotalRowValues(parsed.pl, p, COGS_TOTAL_KEYWORDS) # {} =>
                  parsed.pl[p].cogs \in TotalRowValues(parsed.pl, p, COGS_TOTAL_KEYWORDS)

\* a detail row before and one after the total row, and the total is taken
C14_Witness ==
    /\ "pl" \in DOMAIN parsed
    /\ LET rows == parsed.pl.raw_df.rows
       IN  /\ Len(rows) = 3
           /\ rows[1].label = "Consulting Income"
           /\ rows[2].label = "Total Revenue"
           /\ rows[3].label = "Sales"
    /\ parsed.pl.current.revenue = Some(2850 * Dollar)

\* the rows of the sorted P&L that match the keywords and are valued in the
\* column of period p: the subtotal rows, and the rows a component list holds
\* (no subtotal row, no earlier valued row with the same lower-cased label)
SubtotalMatches(result, p, keywords) ==
    LET df == result.raw_df
        c  == PeriodColumns(result)[PeriodIndex[p] + 1]
    IN  {i \in 1..Len(df.rows) :
            /\ matches_keywords(df.rows[i].label, keywords)
            /\ is_subtotal_row(df.rows[i].label)
            /\ ~IsNone(ValueAt(df, i, c))}

ComponentRows(result, p, keywords) ==
    LET df == result.raw_df
        c  == PeriodColumns(result)[PeriodIndex[p] + 1]
    IN  {i \in 1..Len(df.rows) :
            /\ matches_keywords(df.rows[i].label, keywords)
            /\ ~is_subtotal_row(df.rows[i].label)
            /\ ~IsNone(ValueAt(df, i, c))
            /\ \A j \in 1..(i - 1) :
                  LowerOf[df.rows[j].label] = LowerOf[df.rows[i].label]
                      => IsNone(ValueAt(df, j, c))}

\* components lists exactly the rows of the set, in row order
ListsRows(components, result, p, rows) ==
    LET df == result.raw_df
        c  == PeriodColumns(result)[PeriodIndex[p] + 1]
    IN  /\ Len(components) = Cardinality(rows)
        /\ \E at \in [1..Len(components) -> rows] :
              /\ \A m, n \in 1..Len(components) : m < n => at[m] < at[n]
              /\ \A m \in 1..Len(components) :
                    components[m] = <<df.rows[at[m]].label, ValueAt(df, at[m], c)[1]>>

\* C15: for the interest rows of a P&L and each period column: with a valued
\* matching subtotal row the total is the value of such a row and it is the one
\* component; without one the components are exactly the valued non-subtotal
\* matching rows, one per lower-cased label (the first valued), in row order,
\* and the total is their sum, or null when there is none.
C15_ComponentAggregator ==
    "pl" \in DOMAIN parsed =>
        \A p \in {q \in {"current", "prior"} :
                     PeriodIndex[q] < Len(PeriodColumns(parsed.pl))} :
            LET result     == parsed.pl
                df         == result.raw_df
                c          == PeriodColumns(result)[PeriodIndex[p] + 1]
                total      == result[p].interest_expense
                components == result[p]._interest_components
                subtotals  == SubtotalMatches(result, p, INTEREST_KEYWORDS)
                rows       == ComponentRows(result, p, INTEREST_KEYWORDS)
            IN  IF subtotals # {}
                THEN \E i \in subtotals :
                        /\ total = ValueAt(df, i, c)
                        /\ components = <<<<df.rows[i].label, total[1]>>>>
                ELSE /\ ListsRows(components, result, p, rows)
                     /\ total = IF components = <<>> THEN None
                                ELSE Some(SumOf(components))

\* three distinct lines 1000, 200, 50 and no subtotal row: 1250, 3 components
C15_Witness ==
    /\ "pl" \in DOMAIN parsed
    /\ PeriodColumns(parsed.pl) = <<"FY2024", "FY2023">>
    /\ SubtotalMatches(parsed.pl, "current", INTEREST_KEYWORDS) = {}
    /\ parsed.pl.current._interest_components =
          <<<<"Interest Expense", 1000 * Dollar>>, <<"Bank Charges", 200 * Dollar>>,
            <<"Finance Costs", 50 * Dollar>>>>
    /\ parsed.pl.current.interest_expense = Some(1250 * Dollar)

\* the sorted columns of a parse result that are no reference columns
NonReferenceColumns(result) ==
    Without(result.raw_df.columns, detect_reference_columns(result.raw_df))

\* the sorted table of a parse result reduced to one of its columns
OnlyColumn(result, col) == Reordered(result.raw_df, <<col>>)

\* what the statement's extraction gives for a table that has column col only
ExtractedFrom(result, col) ==
    CASE result.type = "pl" -> extract_period_data(OnlyColumn(result, col), 0, {})
      [] result.type = "bs" -> extract_balance_sheet_data(OnlyColumn(result, col), 0, {})
      [] result.type = "cf" -> extract_cashflow_data(OnlyColumn(result, col), 0, {})

\* every field of a period record is null (a record without fields included)
AllNull(rec) == \A k \in DOMAIN rec : rec[k] = None

\* C17: in the result of every Xero parse function the record of period i is
\* what the i-th sorted non-reference column alone gives, and every field of
\* the period is null when there are fewer than i+1 non-reference columns.
C17_ReferenceColumnsNeverRead ==
    \A f \in DOMAIN parsed :
        "raw_df" \in DOMAIN parsed[f] =>
            \A p \in Periods \cap DOMAIN parsed[f] :
                LET cols == NonReferenceColumns(parsed[f])
                IN  IF PeriodIndex[p] < Len(cols)
                    THEN parsed[f][p] = ExtractedFrom(parsed[f], cols[PeriodIndex[p] + 1])
                    ELSE AllNull(parsed[f][p])

\* a reference column stands between two amount columns and is stepped over
C17_Witness ==
    /\ "pl" \in DOMAIN parsed
    /\ "raw_df" \in DOMAIN parsed.pl
    /\ parsed.pl.raw_df.columns = <<"FY2024", "FY2023", "Notes">>
    /\ parsed.pl.reference_columns = {"FY2023"}
    /\ parsed.pl.prior.net_profit = Some(3003 * Dollar)
    /\ AllNull(parsed.pl.prior2)

\* the balance sheet section a label-only row opens, "none" for any other row
SectionOfHeader(label) ==
    IF Contains(label, "total") THEN "none"
    ELSE IF Contains(label, "non-current assets") THEN "non_current_assets"
    ELSE IF Contains(label, "non-current liabilities") THEN "non_current_liabilities"
    ELSE IF Contains(label, "current assets") THEN "current_assets"
    ELSE IF Contains(label, "current liabilities") THEN "current_liabilities"
    ELSE IF Contains(label, "equity") THEN "equity"
    ELSE "none"

\* the section a valued total row closes
SectionOfTotal(label) ==
    IF Contains(label, "total non-current assets") THEN "non_current_assets"
    ELSE IF Contains(label, "total non-current liabilities") THEN "non_current_liabilities"
    ELSE IF Contains(label, "total current assets") THEN "current_assets"
    ELSE IF Contains(label, "total current liabilities") THEN "current_liabilities"
    ELSE IF Contains(label, "total equity") THEN "equity"
    ELSE "none"

\* the active section when row i of df is read in column c: that of the last
\* section header before it, "unknown" before any header and after the total
\* row of the active section
RECURSIVE ActiveSection(_, _, _)
ActiveSection(df, c, i) ==
    IF i <= 1 THEN "unknown"
    ELSE LET before == ActiveSection(df, c, i - 1)
             label  == df.rows[i - 1].label
         IN  IF IsNone(ValueAt(df, i - 1, c))
             THEN IF SectionOfHeader(label) # "none" THEN SectionOfHeader(label) ELSE before
             ELSE IF SectionOfTotal(label) = before THEN "unknown" ELSE before

\* the rows inventory may be read from in column c
InventoryRowsOf(df, c) ==
    {i \in 1..Len(df.rows) :
        /\ ~IsNone(ValueAt(df, i, c))
        /\ matches_keywords(df.rows[i].label, INVENTORY_KEYWORDS)
        /\ ActiveSection(df, c, i) = "current_assets"}

\* C12: in every period record of the balance sheet parse, a non-null inventory
\* is the value of a valued inventory row read while Current Assets is the
\* active section, with a source that starts with balance_sheet/current_assets,
\* and a null inventory has the source not_found; after the merge the inventory
\* of a period is the one of the balance sheet, whatever the P&L holds.
C12_InventoryGating ==
    /\ "bs" \in DOMAIN parsed =>
          \A p \in {q \in Periods : PeriodIndex[q] < Len(PeriodColumns(parsed.bs))} :
              LET df  == parsed.bs.raw_df
                  c   == PeriodColumns(parsed.bs)[PeriodIndex[p] + 1]
                  rec == parsed.bs[p]
              IN  IF ~IsNone(rec.inventory)
                  THEN /\ \E i \in InventoryRowsOf(df, c) : rec.inventory = ValueAt(df, i, c)
                       /\ rec._inventory_source[1] = "balance_sheet/current_assets"
                  ELSE rec._inventory_source = NotFound
    /\ pc = "xero_merged" =>
          \A p \in DOMAIN merged.data :
              Get(merged.data[p], "inventory") = Get(parsed.bs[p], "inventory")

\* every column of df other than the label column is in exactly one of the lists
Partitions(df, value_columns, reference_columns) ==
    \A c \in Range(df.columns) : (c \in value_columns) # (c \in reference_columns)

\* C16: both classifiers put every non-label column of every table in exactly
\* one of value_columns and reference_columns, a column without any numeric
\* value included.
C16_ColumnPartition ==
    /\ ("pl" \in DOMAIN parsed /\ ~IsNone(uploads.pl)) =>
          LET df == parsed.pl.raw_df
          IN  Partitions(df, Range(ValueColumns(df, parsed.pl.reference_columns)),
                         parsed.pl.reference_columns)
    /\ "pdf" \in DOMAIN parsed =>
          \A t \in 1..Len(uploads.tables) :
              LET df == uploads.tables[t]
                  c  == classify_table_columns(df)
              IN  Partitions(df, Range(c.value_cols), Range(c.ref_cols))

\* where the text walk stands before line i: "pl" outside the balance sheet,
\* else the section of the last header line, "unknown" before any header and
\* after the total line of the active section
RECURSIVE TextSection(_, _)
TextSection(lines, i) ==
    IF i <= 1 THEN "pl"
    ELSE LET before == TextSection(lines, i - 1)
             line   == lines[i - 1]
         IN  IF Contains(line.text, "balance sheet") THEN "unknown"
             ELSE IF Contains(line.text, "profit and loss") THEN "pl"
             ELSE IF before = "pl" THEN "pl"
             ELSE IF IsNone(find_amount_in_line(line))
             THEN IF SectionOfHeader(line.text) # "none" THEN SectionOfHeader(line.text)
                  ELSE before
             ELSE IF SectionOfTotal(line.text) = before THEN "unknown" ELSE before

\* the lines inventory may be read from
InventoryLinesOf(lines) ==
    {i \in 1..Len(lines) :
        /\ ~IsNone(find_amount_in_line(lines[i]))
        /\ keyword_match(lines[i].text, PDF_INVENTORY_KEYWORDS)
        /\ TextSection(lines, i) = "current_assets"}

\* C13: in the record parse_pdf returns, a non-null inventory is the amount of
\* an inventory line tagged as balance sheet current assets and its source
\* starts with balance_sheet/current_assets; otherwise the source is not_found;
\* the source is never outside balance_sheet/current_assets, not_found,
\* user_confirmed.
C13_PdfInventoryRule ==
    "pdf" \in DOMAIN parsed =>
        LET rec == parsed.pdf
        IN  /\ IF ~IsNone(Get(rec, "inventory"))
               THEN /\ \E i \in InventoryLinesOf(uploads.lines) :
                          rec.inventory = find_amount_in_line(uploads.lines[i])
                    /\ rec._inventory_source[1] = "balance_sheet/current_assets"
               ELSE rec._inventory_source = NotFound
            /\ rec._inventory_source[1] \in
                  {"balance_sheet/current_assets", "not_found", "user_confirmed"}

\* the fields of each ratio metric's formula
RatioFields ==
    [current_ratio    |-> {"current_assets", "current_liabilities"},
     debtor_days      |-> {"accounts_receivable", "revenue"},
     creditor_days    |-> {"accounts_payable", "cogs"},
     debt_to_equity   |-> {"total_liabilities", "equity"},
     return_on_assets |-> {"net_profit", "total_assets"},
     return_on_equity |-> {"net_profit", "equity"}]

\* the field each growth metric compares between the two periods
GrowthField ==
    [revenue_growth      |-> "revenue",
     gross_profit_growth |-> "gross_profit",
     expense_growth      |-> "operating_expenses",
     net_profit_growth   |-> "net_profit"]

\* C21: the current value of a ratio metric is null when a field of its
\* formula is null in the current record (Debtor Days with accounts_receivable
\* null, Creditor Days with accounts_payable or cogs null), and a growth
\* metric is null when its field is null in the current or the prior record.
C21_NullFieldNullMetric ==
    pc \in {"flags", "checks", "done"} =>
        /\ \A m \in DOMAIN RatioFields :
              (\E f \in RatioFields[m] : IsNone(Get(data["current"], f))) =>
                  IsNone(metrics[m].current)
        /\ \A m \in DOMAIN GrowthField :
              (/\ m \in DOMAIN metrics
               /\ \/ IsNone(Get(data["current"], GrowthField[m]))
                  \/ IsNone(Get(data["prior"], GrowthField[m]))) =>
                  IsNone(metrics[m].current)

\* C23: run_analysis leaves its input unchanged: once it has run, every period
\* record of financial_data has the keys and values the caller passed.
C23_InputUnchanged ==
    pc \in {"metrics", "flags", "checks", "done", "error"} => data = given

\* the greatest element of a non-empty set of row numbers
Last(rows) == CHOOSE i \in rows : \A j \in rows : j <= i

\* the rows of the sorted P&L that match the keywords with a value in the
\* column of period p
MatchingRows(result, p, keywords) ==
    LET cols == PeriodColumns(result)
        df   == result.raw_df
    IN  IF PeriodIndex[p] >= Len(cols) THEN {}
        ELSE {i \in 1..Len(df.rows) :
                 /\ matches_keywords(df.rows[i].label, keywords)
                 /\ ~IsNone(ValueAt(df, i, cols[PeriodIndex[p] + 1]))}

\* last-wins: the value of the last matching row flagged as a subtotal, else
\* of the last matching row
LastWins(result, p, keywords) ==
    LET df      == result.raw_df
        vcol    == PeriodColumns(result)[PeriodIndex[p] + 1]
        rows    == MatchingRows(result, p, keywords)
        flagged == {i \in rows : is_subtotal_row(df.rows[i].label)}
    IN  ValueAt(df, Last(IF flagged # {} THEN flagged ELSE rows), vcol)

\* C24: when no row matches the explicit total keywords of revenue (of COGS)
\* with a value, revenue (COGS) is taken from the rows matching the field
\* keywords: the value of the last such row flagged as a subtotal, else the
\* value of the last such row.
C24_LastMatchWins ==
    "pl" \in DOMAIN parsed =>
        \A p \in {"current", "prior"} :
            /\ (/\ MatchingRows(parsed.pl, p, REVENUE_TOTAL_KEYWORDS) = {}
                /\ MatchingRows(parsed.pl, p, REVENUE_KEYWORDS) # {}) =>
                  parsed.pl[p].revenue = LastWins(parsed.pl, p, REVENUE_KEYWORDS)
            /\ (/\ MatchingRows(parsed.pl, p, COGS_TOTAL_KEYWORDS) = {}
                /\ MatchingRows(parsed.pl, p, COGS_KEYWORDS) # {}) =>
                  parsed.pl[p].cogs = LastWins(parsed.pl, p, COGS_KEYWORDS)

\* the gross profit the derivation rule gives a record with no gross profit found
DerivedGrossProfit(rec) ==
    IF ~IsNone(Get(rec, "revenue")) /\ ~IsNone(Get(rec, "cogs"))
    THEN Some(rec.revenue[1] - rec.cogs[1]) ELSE None

\* the valued lines of a PDF text that match the gross profit keywords
GrossProfitLinesOf(lines) ==
    {i \in 1..Len(lines) :
        /\ keyword_match(lines[i].text, KeywordsOf("gross_profit"))
        /\ ~IsNone(find_amount_in_line(lines[i]))}

\* C22: in a record built from a Xero P&L or from a PDF text, a gross profit
\* that was found is left as found; when none was found, gross_profit is
\* revenue - cogs if both are non-null (0 included) and null otherwise.
C22_GrossProfitDerivation ==
    /\ "pl" \in DOMAIN parsed =>
          \A p \in {"current", "prior"} :
              LET found == MatchingRows(parsed.pl, p, GROSS_PROFIT_KEYWORDS)
                  rec   == parsed.pl[p]
              IN  IF found = {} THEN rec.gross_profit = DerivedGrossProfit(rec)
                  ELSE \E i \in found :
                          rec.gross_profit =
                              ValueAt(parsed.pl.raw_df, i,
                                      PeriodColumns(parsed.pl)[PeriodIndex[p] + 1])
    /\ ("pdf" \in DOMAIN parsed /\ uploads.tables = <<>>) =>
          LET found == GrossProfitLinesOf(uploads.lines)
              rec   == parsed.pdf
          IN  IF found = {} THEN Get(rec, "gross_profit") = DerivedGrossProfit(rec)
              ELSE \E i \in found :
                      Get(rec, "gross_profit") = find_amount_in_line(uploads.lines[i])

\* row i of df stands after a valued "Total Current Assets" row of column c
\* with no Current Assets header row in between
AfterTotalRow(df, c, i) ==
    \E j \in 1..(i - 1) :
        /\ ~IsNone(ValueAt(df, j, c))
        /\ Contains(df.rows[j].label, "total current assets")
        /\ \A k \in (j + 1)..(i - 1) :
              ~(IsNone(ValueAt(df, k, c))
                /\ SectionOfHeader(df.rows[k].label) = "current_assets")

\* line i of a text stands after a valued "Total Current Assets" line with no
\* Current Assets header line in between
AfterTotalLine(lines, i) ==
    \E j \in 1..(i - 1) :
        /\ ~IsNone(find_amount_in_line(lines[j]))
        /\ Contains(lines[j].text, "total current assets")
        /\ \A k \in (j + 1)..(i - 1) :
              ~(IsNone(find_amount_in_line(lines[k]))
                /\ SectionOfHeader(lines[k].text) = "current_assets")

\* the rows of column c that a record's line items stand for, in order
RECURSIVE ItemRows(_, _, _)
ItemRows(df, c, i) ==
    IF i > Len(df.rows) THEN <<>>
    ELSE (IF ~IsNone(ValueAt(df, i, c)) /\ ~Contains(df.rows[i].label, "total")
          THEN <<i>> ELSE <<>>) \o ItemRows(df, c, i + 1)

\* the line items of a record whose label is no total
RECURSIVE DetailItems(_)
DetailItems(items) ==
    IF items = <<>> THEN <<>>
    ELSE (IF Contains(Head(items).label, "total") THEN <<>> ELSE <<Head(items)>>)
         \o DetailItems(Tail(items))

\* C25: a valued "Total Current Assets" row sets current_assets and closes the
\* Current Assets section in the Xero balance sheet walk and in the PDF text
\* walk: until the next Current Assets header no row is tagged current_assets
\* and inventory is not read from any row.
C25_TotalRowExitsSection ==
    /\ "bs" \in DOMAIN parsed =>
          \A p \in {"current", "prior"} :
              PeriodIndex[p] < Len(PeriodColumns(parsed.bs)) =>
                  LET df    == parsed.bs.raw_df
                      c     == PeriodColumns(parsed.bs)[PeriodIndex[p] + 1]
                      rec   == parsed.bs[p]
                      rows  == ItemRows(df, c, 1)
                      items == DetailItems(rec._bs_line_items)
                  IN  /\ MatchingRows(parsed.bs, p, {"total current assets"}) # {} =>
                            \E i \in MatchingRows(parsed.bs, p, {"total current assets"}) :
                                rec.current_assets = ValueAt(df, i, c)
                      /\ Len(items) = Len(rows)
                      /\ \A k \in 1..Len(rows) :
                            AfterTotalRow(df, c, rows[k]) =>
                                items[k].subsection # "current_assets"
                      /\ ~IsNone(rec.inventory) =>
                            \E i \in 1..Len(df.rows) :
                                /\ rec.inventory = ValueAt(df, i, c)
                                /\ matches_keywords(df.rows[i].label, INVENTORY_KEYWORDS)
                                /\ ~AfterTotalRow(df, c, i)
    /\ ("pdf" \in DOMAIN parsed /\ uploads.tables = <<>>) =>
          LET lines == uploads.lines
              rec   == parsed.pdf
          IN  /\ (\E i \in 1..Len(lines) :
                     /\ Contains(lines[i].text, "total current assets")
                     /\ ~IsNone(find_amount_in_line(lines[i]))) =>
                    \E i \in 1..Len(lines) :
                        /\ Contains(lines[i].text, "total current assets")
                        /\ Get(rec, "current_assets") = find_amount_in_line(lines[i])
              /\ ~IsNone(Get(rec, "inventory")) =>
                    \E i \in 1..Len(lines) :
                        /\ rec.inventory = find_amount_in_line(lines[i])
                        /\ keyword_match(lines[i].text, PDF_INVENTORY_KEYWORDS)
                        /\ ~AfterTotalLine(lines, i)

\* the tag of a section among the tags a line item can carry
TagOf(section) == IF section = "non_current_liabilities" THEN "unknown" ELSE section

\* C26: in the Xero balance sheet walk every valued detail row is tagged with
\* the section of the most recent header row before it, unknown if there was
\* none or its total row closed it; a row read after a Non-Current Liabilities
\* header is not tagged current_assets, non_current_assets or equity.
C26_RowsTaggedByLastHeader ==
    "bs" \in DOMAIN parsed =>
        \A p \in {"current", "prior"} :
            PeriodIndex[p] < Len(PeriodColumns(parsed.bs)) =>
                LET df    == parsed.bs.raw_df
                    c     == PeriodColumns(parsed.bs)[PeriodIndex[p] + 1]
                    rows  == ItemRows(df, c, 1)
                    items == DetailItems(parsed.bs[p]._bs_line_items)
                IN  /\ Len(items) = Len(rows)
                    /\ \A k \in 1..Len(rows) :
                          /\ items[k].label = df.rows[rows[k]].label
                          /\ items[k].subsection = TagOf(ActiveSection(df, c, rows[k]))

\* the line holds a number larger than val
HasLargerNumber(line, val) == \E i \in 1..Len(line.tokens) : line.tokens[i].cents > val

\* C27: for every number read from a line of the parsed text, the
\* note-reference heuristic is true exactly when the value is a whole number
\* from 1 to 50 and the line holds no larger number and no dollar sign.
C27_NoteRefHeuristic ==
    "pdf" \in DOMAIN parsed =>
        \A i \in 1..Len(uploads.lines) :
            LET line == uploads.lines[i]
            IN  \A k \in 1..Len(line.tokens) :
                    LET val == pdf_clean_amount(line.tokens[k])[1]
                    IN  is_likely_note_ref_value(val, line) =
                            (/\ 1 * Dollar <= val /\ val <= 50 * Dollar
                             /\ val % Dollar = 0
                             /\ ~HasLargerNumber(line, val)
                             /\ ~line.dollar)

\* C30: in the result of parse_xero_pl and of parse_xero_balance_sheet the
\* period labels are the headers of the columns the periods are read from,
\* in order: the first three sorted columns outside the reference columns; no
\* reference column's header is a period label.
C30_PeriodLabelsNameValueColumns ==
    \A f \in {"pl", "bs"} \cap DOMAIN parsed :
        "raw_df" \in DOMAIN parsed[f] =>
            /\ parsed[f].period_labels = Prefix(NonReferenceColumns(parsed[f]), 3)
            /\ \A i \in 1..Len(parsed[f].period_labels) :
                  parsed[f].period_labels[i] \notin parsed[f].reference_columns


\* the analysis result of the session, when there is one
HasResult == ~IsNone(session_state.analysis_result)

\* C28: whenever the tabs (metrics, commentary, export) are presented for a
\* result with a failing self-check, the user has acknowledged the fails (the
\* override of the session is set).
C28_FailsGatePresentation ==
    (page.tabs /\ HasResult /\ session_state.analysis_result[1].has_self_check_fails)
        => session_state.self_check_override

\* a result of a PDF is in the session only once the form was submitted
PdfConfirmedBeforeAnalysis ==
    (session_state.data_source = Some("pdf") /\ HasResult) => session_state.pdf_confirmed

\* a commentary in the session was generated from the result in the session
CommentaryOfResult ==
    session_state.commentary # NoCommentary =>
        /\ HasResult
        /\ session_state.commentary[1].generated_from = session_state.analysis_result[1]

\* a step that replaces or removes the result leaves no commentary
ResultChangeClearsCommentary ==
    session_state'.analysis_result # session_state.analysis_result =>
        session_state'.commentary = NoCommentary

\* C29: in every session state a result under data_source "pdf" implies
\* pdf_confirmed, a commentary belongs to the result it is held with, and no
\* step changes the result and keeps a commentary.
C29_ConfirmedBeforeAnalysed ==
    /\ [](PdfConfirmedBeforeAnalysis /\ CommentaryOfResult)
    /\ [][ResultChangeClearsCommentary]_vars

\* a confirmed PDF analysis with a commentary generated from it
C29_Witness ==
    /\ session_state.data_source = Some("pdf")
    /\ HasResult
    /\ session_state.pdf_confirmed
    /\ session_state.commentary # NoCommentary
====
